---------------------------- MODULE Spec2Model ----------------------------
(***************************************************************************)
(* Verification model of the speedata XML language support:                *)
(*   - the diagnostics provider (parseTags, validateDocument,              *)
(*     checkWellFormedness, validateCustomConstraints),                    *)
(*   - the pretty-printer (formatXml),                                     *)
(*   - the RelaxNG compiler (parseRng, buildContentModel),                 *)
(*   - the language server's schema resolution and caches,                 *)
(*   - the cursor context resolver (analyzeDocument).                      *)
(*                                                                         *)
(* Document text is a sequence of one-character strings.  Offsets are      *)
(* 0-based as in the TypeScript source; At(text, i) is text[i].  A         *)
(* Position (line, character) is represented by the offset it was          *)
(* computed from (doc.positionAt is injective).                            *)
(***************************************************************************)
EXTENDS Integers, Sequences, FiniteSets, TLC

-----------------------------------------------------------------------------
(* Characters and JavaScript string primitives *)

Lower == {"a","b","c","d","e","f","g","h","i","j","k","l","m",
          "n","o","p","q","r","s","t","u","v","w","x","y","z"}
Upper == {"A","B","C","D","E","F","G","H","I","J","K","L","M",
          "N","O","P","Q","R","S","T","U","V","W","X","Y","Z"}
Digits == {"0","1","2","3","4","5","6","7","8","9"}
HexDigits == Digits \cup {"a","b","c","d","e","f","A","B","C","D","E","F"}

\* [a-zA-Z_]
IsNameStartChar(ch) == ch \in Lower \cup Upper \cup {"_"}
\* \w
IsWordChar(ch) == ch \in Lower \cup Upper \cup Digits \cup {"_"}
\* [\w:.-]
IsNameChar(ch) == IsWordChar(ch) \/ ch \in {":", ".", "-"}
\* ch === ' ' || '\t' || '\n' || '\r'   (also the \s of the regular expressions)
isWhitespace(ch) == ch \in {" ", "\t", "\n", "\r"}

Min(a, b) == IF a < b THEN a ELSE b
Max(a, b) == IF a > b THEN a ELSE b

\* text[i]; "" stands for undefined (equal to no character)
At(text, i) == IF 0 <= i /\ i < Len(text) THEN text[i + 1] ELSE ""

\* text.substring(a, b)
Substring(text, a, b) ==
  LET lo == Max(0, Min(Min(a, b), Len(text)))
      hi == Max(0, Min(Max(a, b), Len(text)))
  IN SubSeq(text, lo + 1, hi)

\* text.substring(a)
SubstringFrom(text, a) == Substring(text, a, Len(text))

\* text.startsWith(pat, i)
StartsWith(text, pat, i) ==
  /\ i >= 0
  /\ i + Len(pat) <= Len(text)
  /\ \A k \in 1..Len(pat) : text[i + k] = pat[k]

\* text.indexOf(pat, from)
IndexOf(text, pat, from) ==
  IF \E i \in from..(Len(text) - Len(pat)) : StartsWith(text, pat, i)
  THEN CHOOSE i \in from..(Len(text) - Len(pat)) :
         /\ StartsWith(text, pat, i)
         /\ \A j \in from..(i - 1) : ~StartsWith(text, pat, j)
  ELSE -1

\* s.endsWith(pat)
EndsWith(s, pat) == Len(s) >= Len(pat) /\ StartsWith(s, pat, Len(s) - Len(pat))

\* the character classes the regular expressions repeat
InClass(cls, ch) ==
  CASE cls = "name" -> IsNameChar(ch)
    [] cls = "space" -> isWhitespace(ch)
    [] cls = "noquote" -> ch \notin {"\"", "'"}
    [] cls = "nodquote" -> ch # "\""
    [] cls = "noquestion" -> ch # "?"
    [] cls = "hex" -> ch \in HexDigits
    [] cls = "digit" -> ch \in Digits
    [] cls = "entity" -> IsWordChar(ch) \/ ch \in {".", "-"}
    [] OTHER -> FALSE

\* the end of the longest run of characters of class cls that starts at i
Span(cls, text, i) ==
  CHOOSE j \in i..Max(i, Len(text)) :
    /\ \A k \in i..(j - 1) : InClass(cls, text[k + 1])
    /\ j < Len(text) => ~InClass(cls, text[j + 1])

\* s.trim() for the whitespace characters of the model
RECURSIVE TrimLeft(_)
TrimLeft(s) == IF Len(s) > 0 /\ isWhitespace(s[1]) THEN TrimLeft(Tail(s)) ELSE s
RECURSIVE TrimRight(_)
TrimRight(s) ==
  IF Len(s) > 0 /\ isWhitespace(s[Len(s)]) THEN TrimRight(SubSeq(s, 1, Len(s) - 1)) ELSE s
Trim(s) == TrimRight(TrimLeft(s))

\* out.join('') / flattening a list of strings
RECURSIVE Join(_)
Join(ss) == IF ss = <<>> THEN <<>> ELSE Head(ss) \o Join(Tail(ss))

\* JavaScript Map: a list of [key, val] entries in insertion order; set() on an
\* existing key replaces the value and keeps the entry's position.
MapHas(m, key) == \E k \in 1..Len(m) : m[k].key = key
MapGet(m, key) == m[CHOOSE k \in 1..Len(m) : m[k].key = key].val
MapSet(m, key, val) ==
  IF MapHas(m, key)
  THEN [k \in 1..Len(m) |-> IF m[k].key = key THEN [key |-> key, val |-> val] ELSE m[k]]
  ELSE Append(m, [key |-> key, val |-> val])

-----------------------------------------------------------------------------
(* Diagnostics provider: parseTags *)

\* /<(\/?[a-zA-Z_][\w:.-]*)((?:[^>"']|"[^"]*"|'[^']*')*)>/  second group and the
\* final '>': the offset of the closing '>', or -1 when the group cannot reach one
RECURSIVE ScanTagRest(_, _)
ScanTagRest(text, j) ==
  IF j >= Len(text) THEN -1
  ELSE IF text[j + 1] = ">" THEN j
  ELSE IF text[j + 1] \in {"\"", "'"}
       THEN LET q == IndexOf(text, <<text[j + 1]>>, j + 1)
            IN IF q = -1 THEN -1 ELSE ScanTagRest(text, q + 1)
  ELSE ScanTagRest(text, j + 1)

\* one attempt of tagRegex at offset m: [ok, nameEnd, gt]
TagRegexAt(text, m) ==
  LET n0 == IF At(text, m + 1) = "/" THEN m + 2 ELSE m + 1
      nameEnd == Span("name", text, n0 + 1)
      gt == ScanTagRest(text, nameEnd)
  IN IF At(text, m) = "<" /\ IsNameStartChar(At(text, n0)) /\ gt # -1
     THEN [ok |-> TRUE, nameEnd |-> nameEnd, gt |-> gt]
     ELSE [ok |-> FALSE, nameEnd |-> -1, gt |-> -1]

\* /(\w[\w:.-]*)\s*=\s*["']([^"']*)["']/ attempted at offset j of s:
\* [ok, nameEnd, valStart, valEnd]; the match ends at valEnd + 1
AttrRegexAt(s, j) ==
  LET nameEnd == Span("name", s, j + 1)
      eq == Span("space", s, nameEnd)
      q1 == Span("space", s, eq + 1)
      q2 == Span("noquote", s, q1 + 1)
  IN IF /\ IsWordChar(At(s, j))
        /\ At(s, eq) = "="
        /\ At(s, q1) \in {"\"", "'"}
        /\ At(s, q2) \in {"\"", "'"}
     THEN [ok |-> TRUE, nameEnd |-> nameEnd, valStart |-> q1 + 1, valEnd |-> q2]
     ELSE [ok |-> FALSE, nameEnd |-> -1, valStart |-> -1, valEnd |-> -1]

\* while ((attrMatch = attrRegex.exec(attrsStr)) !== null) attributes.set(...)
\* base = match.index + 1 + name.length
RECURSIVE ParseAttributes(_, _, _, _)
ParseAttributes(attrsStr, j, base, attributes) ==
  IF j >= Len(attrsStr) THEN attributes
  ELSE LET Matched(am) ==
             IF am.ok
             THEN ParseAttributes(attrsStr, am.valEnd + 1, base,
                    MapSet(attributes, Substring(attrsStr, j, am.nameEnd),
                           [value |-> Substring(attrsStr, am.valStart, am.valEnd),
                            pos |-> base + j]))
             ELSE ParseAttributes(attrsStr, j + 1, base, attributes)
       IN Matched(AttrRegexAt(attrsStr, j))

\* parseTags: the TagInfo list.  name keeps the leading "/" of a closing tag.
RECURSIVE ParseTagsFrom(_, _, _)
ParseTagsFrom(text, m, tags) ==
  LET Tag(lt, name, attrsStr, gt) ==
        [name |-> name,
         pos |-> lt + 1,
         attributes |-> IF name[1] # "/"
                        THEN ParseAttributes(attrsStr, 0, lt + 1 + Len(name), <<>>)
                        ELSE <<>>,
         selfClosing |-> At(text, gt - 1) = "/"]
      Matched(lt, tm) ==
        IF tm.ok
        THEN ParseTagsFrom(text, tm.gt + 1,
               Append(tags, Tag(lt, Substring(text, lt + 1, tm.nameEnd),
                                Substring(text, tm.nameEnd, tm.gt), tm.gt)))
        ELSE ParseTagsFrom(text, lt + 1, tags)
      \* a match can only start at a "<": lt is the next one at or after m
      Attempt(lt) == IF lt = -1 THEN tags ELSE Matched(lt, TagRegexAt(text, lt))
  IN Attempt(IndexOf(text, <<"<">>, m))

parseTags(text) == ParseTagsFrom(text, 0, <<>>)

-----------------------------------------------------------------------------
(* Custom constraints (customConstraints.ts) *)

N_Value == <<"V","a","l","u","e">>
N_DefineColor == <<"D","e","f","i","n","e","C","o","l","o","r">>
A_model == <<"m","o","d","e","l">>
A_select == <<"s","e","l","e","c","t">>
A_value == <<"v","a","l","u","e">>
A_colorname == <<"c","o","l","o","r","n","a","m","e">>
M_cmyk == <<"c","m","y","k">>
M_rgb == <<"r","g","b">>
M_RGB == <<"R","G","B">>
M_gray == <<"g","r","a","y">>
M_spotcolor == <<"s","p","o","t","c","o","l","o","r">>
M_constructor == <<"c","o","n","s","t","r","u","c","t","o","r">>

PRESERVED_ELEMENTS == {N_Value}

\* the own keys of the defineColorRules object literal
defineColorRules ==
  [key \in {M_cmyk, M_rgb, M_RGB, M_gray, M_spotcolor, <<>>} |->
     CASE key = M_cmyk ->
            [required |-> << <<"c">>, <<"m">>, <<"y">>, <<"k">> >>,
             forbidden |-> << <<"r">>, <<"g">>, <<"b">>, A_value, A_colorname >>]
       [] key \in {M_rgb, M_RGB} ->
            [required |-> << <<"r">>, <<"g">>, <<"b">> >>,
             forbidden |-> << <<"c">>, <<"m">>, <<"y">>, <<"k">>, A_value, A_colorname >>]
       [] key = M_gray ->
            [required |-> << <<"g">> >>,
             forbidden |-> << <<"r">>, <<"b">>, <<"c">>, <<"m">>, <<"y">>, <<"k">>,
                              A_value, A_colorname >>]
       [] key = M_spotcolor ->
            [required |-> << A_colorname >>,
             forbidden |-> << <<"r">>, <<"g">>, <<"b">>, A_value >>]
       [] OTHER ->
            [required |-> << A_value >>,
             forbidden |-> << <<"r">>, <<"g">>, <<"b">>, <<"c">>, <<"m">>, <<"y">>, <<"k">>,
                              A_colorname >>]]

\* keys that defineColorRules[model] finds on Object.prototype: the lookup is
\* truthy, but the value has no iterable .required
ObjectPrototypeKeys == {M_constructor}

\* a CustomDiagnostic: [severity, kind, attr, model]
CustomDiag(severity, kind, attr, model) ==
  [severity |-> severity, kind |-> kind, attr |-> attr, model |-> model]

\* the diagnostics one loop of validateDefineColor pushes, in list order
RECURSIVE RuleDiags(_, _, _, _, _)
RuleDiags(names, attributes, wantPresent, severity, model) ==
  IF names = <<>> THEN <<>>
  ELSE (IF MapHas(attributes, Head(names)) = wantPresent
        THEN <<>>
        ELSE <<CustomDiag(severity,
                          IF wantPresent THEN "RequiredForModel" ELSE "NotAllowedForModel",
                          Head(names), model)>>)
       \o RuleDiags(Tail(names), attributes, wantPresent, severity, model)

\* validateDefineColor: [diags, threw]; attributes maps name -> value
validateDefineColor(attributes) ==
  LET model == IF MapHas(attributes, A_model) THEN MapGet(attributes, A_model) ELSE <<>>
  IN IF model \in ObjectPrototypeKeys
     THEN [diags |-> <<>>, threw |-> TRUE]
     ELSE IF model \notin DOMAIN defineColorRules
     THEN [diags |-> <<>>, threw |-> FALSE]
     ELSE LET rule == defineColorRules[model]
          IN [diags |-> RuleDiags(rule.required, attributes, TRUE, "error", model)
                        \o RuleDiags(rule.forbidden, attributes, FALSE, "warning", model),
              threw |-> FALSE]

\* validateValue
validateValue(attributes, hasChildren) ==
  IF MapHas(attributes, A_select) /\ hasChildren
  THEN <<CustomDiag("warning", "ValueSelectAndChildren", <<>>, <<>>)>>
  ELSE <<>>

\* validateCustomConstraints: [diags, threw]
validateCustomConstraints(elementName, attributes, hasChildren) ==
  LET dc == IF elementName = N_DefineColor
            THEN validateDefineColor(attributes)
            ELSE [diags |-> <<>>, threw |-> FALSE]
      vv == IF elementName = N_Value THEN validateValue(attributes, hasChildren) ELSE <<>>
  IN [diags |-> dc.diags \o vv, threw |-> dc.threw]

-----------------------------------------------------------------------------
(* Content model (contentModel.ts) and diagnostics provider: validateDocument *)

\* AttributeDeclaration: values is <<>> when undefined, pattern is <<>> when undefined
AttributeDeclaration(name, required, values, pattern) ==
  [name |-> name, required |-> required, values |-> values, pattern |-> pattern]

\* ElementDeclaration
ElementDeclaration(name, attributes, allowedChildren, allowsText) ==
  [name |-> name, attributes |-> attributes, allowedChildren |-> allowedChildren,
   allowsText |-> allowsText]

\* model.elements.get(name): [known, decl]; known = FALSE stands for undefined
NoDecl == ElementDeclaration(<<>>, <<>>, <<>>, FALSE)
ElementsGet(model, name) ==
  IF MapHas(model.elements, name)
  THEN [known |-> TRUE, decl |-> MapGet(model.elements, name)]
  ELSE [known |-> FALSE, decl |-> NoDecl]

\* regular-expression sources the model knows: P_digits is [0-9]+, P_unbalanced is
\* "(" (new RegExp throws); a source without metacharacters matches itself
P_digits == <<"[","0","-","9","]","+">>
P_unbalanced == <<"(">>
PatternCompiles(pattern) == pattern # P_unbalanced
\* new RegExp(`^(?:${pattern})$`).test(value)
PatternTest(pattern, value) ==
  IF pattern = P_digits
  THEN value # <<>> /\ \A k \in 1..Len(value) : value[k] \in Digits
  ELSE value = pattern

\* a Diagnostic; createRange(line, character, length) is [pos, len]
Diagnostic(severity, pos, len, kind, a, b) ==
  [severity |-> severity, pos |-> pos, len |-> len, kind |-> kind, a |-> a, b |-> b]

\* attrMap: name -> value
AttrMap(attributes) ==
  [k \in 1..Len(attributes) |-> [key |-> attributes[k].key, val |-> attributes[k].val.value]]

\* customDiags pushed as Diagnostics at the element's name
RECURSIVE CustomToDiagnostics(_, _, _)
CustomToDiagnostics(customDiags, pos, len) ==
  IF customDiags = <<>> THEN <<>>
  ELSE <<Diagnostic(IF Head(customDiags).severity = "error" THEN "Error" ELSE "Warning",
                    pos, len, Head(customDiags).kind,
                    Head(customDiags).attr, Head(customDiags).model)>>
       \o CustomToDiagnostics(Tail(customDiags), pos, len)

\* decl.attributes.find(a => a.name === attrName): index of the first, 0 if none
FindAttrDecl(decl, attrName) ==
  IF \E k \in 1..Len(decl.attributes) : decl.attributes[k].name = attrName
  THEN CHOOSE k \in 1..Len(decl.attributes) :
         /\ decl.attributes[k].name = attrName
         /\ \A j \in 1..(k - 1) : decl.attributes[j].name # attrName
  ELSE 0

\* AttributeDiagnostics without the try/catch around new RegExp: a pattern that
\* does not compile is treated as one that does not match
AttributeDiagnostics_NoCatch(tag, decl, entry) ==
  LET attrName == entry.key
      attrInfo == entry.val
      ix == FindAttrDecl(decl, attrName)
      attrDecl == decl.attributes[ix]
      allowedVals == [k \in 1..Len(attrDecl.values) |-> attrDecl.values[k].value]
      isXmlns == attrName = <<"x","m","l","n","s">>
                 \/ StartsWith(attrName, <<"x","m","l","n","s",":">>, 0)
  IN IF isXmlns THEN <<>>
     ELSE IF ix = 0
     THEN <<Diagnostic("Warning", attrInfo.pos, Len(attrName), "UnknownAttribute",
                       attrName, tag.name)>>
     ELSE IF Len(attrDecl.values) > 0 /\ attrInfo.value # <<>>
             /\ ~(\E k \in 1..Len(allowedVals) : allowedVals[k] = attrInfo.value)
     THEN IF attrDecl.pattern # <<>>
          THEN IF ~PatternCompiles(attrDecl.pattern)
                  \/ ~PatternTest(attrDecl.pattern, attrInfo.value)
               THEN <<Diagnostic("Warning", attrInfo.pos, Len(attrName), "InvalidValue",
                                 attrInfo.value, attrName)>>
               ELSE <<>>
          ELSE <<Diagnostic("Warning", attrInfo.pos, Len(attrName), "InvalidValueAllowed",
                            attrInfo.value, attrName)>>
     ELSE <<>>

\* the body of "for (const [attrName, attrInfo] of tag.attributes)" for one entry
AttributeDiagnostics(tag, decl, entry) ==
  LET attrName == entry.key
      attrInfo == entry.val
      ix == FindAttrDecl(decl, attrName)
      attrDecl == decl.attributes[ix]
      allowedVals == [k \in 1..Len(attrDecl.values) |-> attrDecl.values[k].value]
      isXmlns == attrName = <<"x","m","l","n","s">>
                 \/ StartsWith(attrName, <<"x","m","l","n","s",":">>, 0)
  IN IF isXmlns THEN <<>>
     ELSE IF ix = 0
     THEN <<Diagnostic("Warning", attrInfo.pos, Len(attrName), "UnknownAttribute",
                       attrName, tag.name)>>
     ELSE IF Len(attrDecl.values) > 0 /\ attrInfo.value # <<>>
             /\ ~(\E k \in 1..Len(allowedVals) : allowedVals[k] = attrInfo.value)
     THEN IF attrDecl.pattern # <<>>
          THEN IF PatternCompiles(attrDecl.pattern)
                  /\ ~PatternTest(attrDecl.pattern, attrInfo.value)
               THEN <<Diagnostic("Warning", attrInfo.pos, Len(attrName), "InvalidValue",
                                 attrInfo.value, attrName)>>
               ELSE <<>>
          ELSE <<Diagnostic("Warning", attrInfo.pos, Len(attrName), "InvalidValueAllowed",
                            attrInfo.value, attrName)>>
     ELSE <<>>

RECURSIVE AllAttributeDiagnostics(_, _, _)
AllAttributeDiagnostics(tag, decl, k) ==
  IF k > Len(tag.attributes) THEN <<>>
  ELSE AttributeDiagnostics(tag, decl, tag.attributes[k])
       \o AllAttributeDiagnostics(tag, decl, k + 1)

\* mutant of RequiredDiagnostics: the test of attrDecl.required is dropped
RECURSIVE RequiredDiagnostics_IgnoresRequired(_, _, _)
RequiredDiagnostics_IgnoresRequired(tag, decl, k) ==
  IF k > Len(decl.attributes) THEN <<>>
  ELSE (IF ~MapHas(tag.attributes, decl.attributes[k].name)
        THEN <<Diagnostic("Error", tag.pos, Len(tag.name), "RequiredAttributeMissing",
                          decl.attributes[k].name, tag.name)>>
        ELSE <<>>)
       \o RequiredDiagnostics_IgnoresRequired(tag, decl, k + 1)

\* "Check required attributes": for (const attrDecl of decl.attributes)
RECURSIVE RequiredDiagnostics(_, _, _)
RequiredDiagnostics(tag, decl, k) ==
  IF k > Len(decl.attributes) THEN <<>>
  ELSE (IF decl.attributes[k].required /\ ~MapHas(tag.attributes, decl.attributes[k].name)
        THEN <<Diagnostic("Error", tag.pos, Len(tag.name), "RequiredAttributeMissing",
                          decl.attributes[k].name, tag.name)>>
        ELSE <<>>)
       \o RequiredDiagnostics(tag, decl, k + 1)

\* state of the tag walk.  customCalls lists the calls of validateCustomConstraints
\* ([pos, name, hasChildren]); threw records an exception leaving validateDocument.
ValidateInit ==
  [stack |-> <<>>, preserveDepth |-> 0, diagnostics |-> <<>>, customCalls |-> <<>>,
   threw |-> FALSE]

\* closing tag (lines 84-118)
ValidateClosingTag(st, tag) ==
  LET closeName == SubstringFrom(tag.name, 1)
      top == st.stack[Len(st.stack)]
      pd == IF closeName \in PRESERVED_ELEMENTS THEN st.preserveDepth - 1 ELSE st.preserveDepth
  IN IF st.preserveDepth > 0
     THEN IF pd > 0
          THEN [st EXCEPT !.preserveDepth = pd]
          ELSE IF Len(st.stack) > 0 /\ top.name = closeName
               THEN [st EXCEPT !.preserveDepth = pd,
                               !.stack = SubSeq(st.stack, 1, Len(st.stack) - 1)]
               ELSE [st EXCEPT !.preserveDepth = pd]
     ELSE IF Len(st.stack) > 0 /\ top.name = closeName
          THEN LET cc == validateCustomConstraints(top.name, AttrMap(top.tag.attributes),
                                                   top.hasChildren)
               IN [st EXCEPT
                     !.stack = SubSeq(st.stack, 1, Len(st.stack) - 1),
                     !.customCalls = Append(@, [pos |-> top.tag.pos, name |-> top.name,
                                                hasChildren |-> top.hasChildren]),
                     !.threw = cc.threw,
                     !.diagnostics = @ \o CustomToDiagnostics(cc.diags, top.tag.pos,
                                                              Len(top.name))]
          ELSE st

\* opening or self-closing tag (lines 120-241)
ValidateOpeningTag(st, tag, model) ==
  IF st.preserveDepth > 0
  THEN IF ~tag.selfClosing /\ tag.name \in PRESERVED_ELEMENTS
       THEN [st EXCEPT !.preserveDepth = @ + 1]
       ELSE st
  ELSE
  LET got == ElementsGet(model, tag.name)
      decl == got.decl
      marked == IF Len(st.stack) > 0
                THEN [st.stack EXCEPT ![Len(st.stack)].hasChildren = TRUE]
                ELSE st.stack
      parent == marked[Len(marked)]
      unknown == IF ~got.known
                 THEN <<Diagnostic("Warning", tag.pos, Len(tag.name), "UnknownElement",
                                   tag.name, <<>>)>>
                 ELSE <<>>
      notAllowed == IF /\ Len(marked) > 0
                       /\ parent.decl.known
                       /\ got.known
                       /\ ~(\E k \in 1..Len(parent.decl.decl.allowedChildren) :
                               parent.decl.decl.allowedChildren[k] = tag.name)
                    THEN <<Diagnostic("Warning", tag.pos, Len(tag.name), "NotAllowedChild",
                                      tag.name, parent.name)>>
                    ELSE <<>>
      attrs == IF got.known
               THEN AllAttributeDiagnostics(tag, decl, 1) \o RequiredDiagnostics(tag, decl, 1)
               ELSE <<>>
      cc == validateCustomConstraints(tag.name, AttrMap(tag.attributes), FALSE)
  IN IF tag.selfClosing
     THEN [st EXCEPT
             !.stack = marked,
             !.customCalls = Append(@, [pos |-> tag.pos, name |-> tag.name,
                                        hasChildren |-> FALSE]),
             !.threw = cc.threw,
             !.diagnostics = @ \o unknown \o notAllowed \o attrs
                               \o CustomToDiagnostics(cc.diags, tag.pos, Len(tag.name))]
     ELSE [st EXCEPT
             !.stack = Append(marked, [name |-> tag.name, decl |-> got, tag |-> tag,
                                       hasChildren |-> FALSE]),
             !.preserveDepth = IF tag.name \in PRESERVED_ELEMENTS THEN 1 ELSE @,
             !.diagnostics = @ \o unknown \o notAllowed \o attrs]

\* ValidateTag without the "Skip validation inside preserved elements" block:
\* an opening tag inside a preserved element is validated like any other
ValidateTag_ValidatesPreserved(st, tag, model) ==
  LET Kept(r) ==
        [r EXCEPT !.preserveDepth =
           IF st.preserveDepth = 0 THEN r.preserveDepth
           ELSE IF ~tag.selfClosing /\ tag.name \in PRESERVED_ELEMENTS
           THEN st.preserveDepth + 1
           ELSE st.preserveDepth]
  IN IF tag.name[1] = "/" THEN ValidateClosingTag(st, tag)
     ELSE Kept(ValidateOpeningTag([st EXCEPT !.preserveDepth = 0], tag, model))

\* one iteration of "for (const tag of tags)"
ValidateTag(st, tag, model) ==
  IF tag.name[1] = "/" THEN ValidateClosingTag(st, tag) ELSE ValidateOpeningTag(st, tag, model)

RECURSIVE ValidateTags(_, _, _, _)
ValidateTags(st, tags, k, model) ==
  IF k > Len(tags) \/ st.threw THEN st
  ELSE ValidateTags(ValidateTag(st, tags[k], model), tags, k + 1, model)

\* "Remaining stack entries = unclosed tags"
UnclosedDiagnostics(stack) ==
  [k \in 1..Len(stack) |->
     Diagnostic("Error", stack[k].tag.pos, Len(stack[k].name), "UnclosedElement",
                stack[k].name, <<>>)]

\* /^&#x[0-9a-fA-F]+;/ || /^&#[0-9]+;/ || /^&[a-zA-Z_][\w.-]*;/ tested on text.substring(i)
IsReference(text, i) ==
  LET hexEnd == Span("hex", text, i + 3)
      decEnd == Span("digit", text, i + 2)
      nameEnd == Span("entity", text, i + 2)
  IN \/ StartsWith(text, <<"&","#","x">>, i) /\ hexEnd > i + 3 /\ At(text, hexEnd) = ";"
     \/ StartsWith(text, <<"&","#">>, i) /\ decEnd > i + 2 /\ At(text, decEnd) = ";"
     \/ At(text, i) = "&" /\ IsNameStartChar(At(text, i + 1)) /\ At(text, nameEnd) = ";"

\* WellFormednessStep without inQuote: the first ">" ends a tag, quoted or not
WellFormednessStep_NoQuotes(text, f) ==
  LET i == f.i
      ch == text[i + 1]
      skip(n) == [f EXCEPT !.i = i + n]
      bare(kind) ==
        [f EXCEPT !.i = i + 1,
                  !.diagnostics = Append(@, Diagnostic("Error", i, 1, kind, <<>>, <<>>))]
  IN IF f.inComment
     THEN IF StartsWith(text, <<"-","-",">">>, i)
          THEN [f EXCEPT !.inComment = FALSE, !.i = i + 3] ELSE skip(1)
     ELSE IF f.inPI
     THEN IF StartsWith(text, <<"?",">">>, i)
          THEN [f EXCEPT !.inPI = FALSE, !.i = i + 2] ELSE skip(1)
     ELSE IF f.inCDATA
     THEN IF StartsWith(text, <<"]","]",">">>, i)
          THEN [f EXCEPT !.inCDATA = FALSE, !.i = i + 3] ELSE skip(1)
     ELSE IF f.inTag
     THEN IF ch = ">" THEN [f EXCEPT !.inTag = FALSE, !.i = i + 1]
          ELSE skip(1)
     ELSE IF StartsWith(text, <<"<","!","-","-">>, i)
     THEN [f EXCEPT !.inComment = TRUE, !.i = i + 4]
     ELSE IF StartsWith(text, <<"<","?">>, i)
     THEN [f EXCEPT !.inPI = TRUE, !.i = i + 2]
     ELSE IF StartsWith(text, <<"<","!","[","C","D","A","T","A","[">>, i)
     THEN [f EXCEPT !.inCDATA = TRUE, !.i = i + 9]
     ELSE IF ch = "<"
     THEN IF i + 1 < Len(text) /\ (text[i + 2] = "/" \/ IsNameStartChar(text[i + 2]))
          THEN [f EXCEPT !.inTag = TRUE, !.i = i + 1]
          ELSE bare("InvalidLt")
     ELSE IF ch = "&"
     THEN IF IsReference(text, i) THEN skip(1) ELSE bare("InvalidAmp")
     ELSE skip(1)

\* one iteration of the loop of checkWellFormedness.  inQuote is "" for null.
WellFormednessStep(text, f) ==
  LET i == f.i
      ch == text[i + 1]
      skip(n) == [f EXCEPT !.i = i + n]
      bare(kind) ==
        [f EXCEPT !.i = i + 1,
                  !.diagnostics = Append(@, Diagnostic("Error", i, 1, kind, <<>>, <<>>))]
  IN IF f.inComment
     THEN IF StartsWith(text, <<"-","-",">">>, i)
          THEN [f EXCEPT !.inComment = FALSE, !.i = i + 3] ELSE skip(1)
     ELSE IF f.inPI
     THEN IF StartsWith(text, <<"?",">">>, i)
          THEN [f EXCEPT !.inPI = FALSE, !.i = i + 2] ELSE skip(1)
     ELSE IF f.inCDATA
     THEN IF StartsWith(text, <<"]","]",">">>, i)
          THEN [f EXCEPT !.inCDATA = FALSE, !.i = i + 3] ELSE skip(1)
     ELSE IF f.inTag
     THEN IF f.inQuote # ""
          THEN (IF ch = f.inQuote THEN [f EXCEPT !.inQuote = "", !.i = i + 1] ELSE skip(1))
          ELSE IF ch \in {"\"", "'"} THEN [f EXCEPT !.inQuote = ch, !.i = i + 1]
          ELSE IF ch = ">" THEN [f EXCEPT !.inTag = FALSE, !.i = i + 1]
          ELSE skip(1)
     ELSE IF StartsWith(text, <<"<","!","-","-">>, i)
     THEN [f EXCEPT !.inComment = TRUE, !.i = i + 4]
     ELSE IF StartsWith(text, <<"<","?">>, i)
     THEN [f EXCEPT !.inPI = TRUE, !.i = i + 2]
     ELSE IF StartsWith(text, <<"<","!","[","C","D","A","T","A","[">>, i)
     THEN [f EXCEPT !.inCDATA = TRUE, !.i = i + 9]
     ELSE IF ch = "<"
     THEN IF i + 1 < Len(text) /\ (text[i + 2] = "/" \/ IsNameStartChar(text[i + 2]))
          THEN [f EXCEPT !.inTag = TRUE, !.i = i + 1]
          ELSE bare("InvalidLt")
     ELSE IF ch = "&"
     THEN IF IsReference(text, i) THEN skip(1) ELSE bare("InvalidAmp")
     ELSE skip(1)

\* the loop of checkWellFormedness
RECURSIVE WellFormednessScan(_, _)
WellFormednessScan(text, f) ==
  IF f.i >= Len(text) THEN f ELSE WellFormednessScan(text, WellFormednessStep(text, f))

\* checkWellFormedness: the diagnostics it pushes
checkWellFormedness(text) ==
  WellFormednessScan(text,
    [inTag |-> FALSE, inComment |-> FALSE, inPI |-> FALSE, inCDATA |-> FALSE,
     inQuote |-> "", i |-> 0, diagnostics |-> <<>>]).diagnostics

\* validateDocument(doc, model): [diagnostics, customCalls, threw]
validateDocument(text, model) ==
  LET Finish(st) ==
        IF st.threw
        THEN [diagnostics |-> <<>>, customCalls |-> st.customCalls, threw |-> TRUE]
        ELSE [diagnostics |-> st.diagnostics \o UnclosedDiagnostics(st.stack)
                              \o checkWellFormedness(text),
              customCalls |-> st.customCalls,
              threw |-> FALSE]
  IN Finish(ValidateTags(ValidateInit, parseTags(text), 1, model))

-----------------------------------------------------------------------------
(* Pretty-printer (formattingProvider.ts): formatXml *)

N_Section == <<"S","e","c","t","i","o","n">>
SECTION_ELEMENTS == {N_Section}

\* s.repeat(n)
RECURSIVE Repeat(_, _)
Repeat(s, n) == IF n <= 0 THEN <<>> ELSE s \o Repeat(s, n - 1)

FormattingOptions(insertSpaces, tabSize) ==
  [insertSpaces |-> insertSpaces, tabSize |-> tabSize]

\* const indent = options.insertSpaces ? ' '.repeat(options.tabSize) : '\t'
IndentOf(options) ==
  IF options.insertSpaces THEN Repeat(<<" ">>, options.tabSize) ELSE <<"\t">>

indentStr(indent, depth) == IF depth <= 0 THEN <<>> ELSE Repeat(indent, depth)

\* findTagEnd: the offset of the first '>' outside quotes after start, or -1.
\* inQuote is "" for null.
RECURSIVE FindTagEndFrom(_, _, _)
FindTagEndFrom(text, i, inQuote) ==
  IF i >= Len(text) THEN -1
  ELSE LET ch == text[i + 1]
       IN IF inQuote # ""
          THEN FindTagEndFrom(text, i + 1, IF ch = inQuote THEN "" ELSE inQuote)
          ELSE IF ch = "\"" \/ ch = "'" THEN FindTagEndFrom(text, i + 1, ch)
          ELSE IF ch = ">" THEN i
          ELSE FindTagEndFrom(text, i + 1, inQuote)

findTagEnd(text, start) == FindTagEndFrom(text, start + 1, "")

RECURSIVE ExtractTagNameEnd(_, _)
ExtractTagNameEnd(s, end) ==
  IF end < Len(s) /\ ~isWhitespace(s[end + 1]) /\ s[end + 1] # ">" /\ s[end + 1] # "/"
  THEN ExtractTagNameEnd(s, end + 1)
  ELSE end

extractTagName(s) == Substring(s, 0, ExtractTagNameEnd(s, 0))

\* tag.replace(/\s*\/>$/, ' />')
normalizeSelfClosingTag(tag) ==
  IF EndsWith(tag, <<"/", ">">>)
  THEN TrimRight(Substring(tag, 0, Len(tag) - 2)) \o <<" ", "/", ">">>
  ELSE tag

RECURSIVE HasBlankLineFrom(_, _, _)
HasBlankLineFrom(text, i, newlineCount) ==
  IF i >= Len(text) THEN FALSE
  ELSE IF text[i + 1] = "\n"
  THEN IF newlineCount + 1 >= 2 THEN TRUE ELSE HasBlankLineFrom(text, i + 1, newlineCount + 1)
  ELSE IF ~isWhitespace(text[i + 1]) THEN FALSE
  ELSE HasBlankLineFrom(text, i + 1, newlineCount)

hasBlankLineAfter(text, pos) == HasBlankLineFrom(text, pos, 0)

isBlankLineDepth(depth, elementStack) ==
  \/ depth = 1
  \/ /\ depth = 2
     /\ Len(elementStack) >= 1
     /\ elementStack[Len(elementStack)] \in SECTION_ELEMENTS

\* capturePreservedContent: [found, content, endIndex]; found = FALSE for null
RECURSIVE CaptureFrom(_, _, _, _, _, _)
CaptureFrom(text, startIndex, closeTag, openPattern, depth, i) ==
  IF i >= Len(text) THEN [found |-> FALSE, content |-> <<>>, endIndex |-> -1]
  ELSE IF StartsWith(text, closeTag, i)
  THEN IF depth - 1 = 0
       THEN [found |-> TRUE, content |-> Substring(text, startIndex, i),
             endIndex |-> i + Len(closeTag)]
       ELSE CaptureFrom(text, startIndex, closeTag, openPattern, depth - 1, i + Len(closeTag))
  ELSE LET afterName == i + Len(openPattern)
           tagEnd == findTagEnd(text, i)
       IN IF /\ StartsWith(text, openPattern, i)
             /\ afterName < Len(text)
             /\ At(text, afterName) \in {" ", ">", "/", "\t", "\n", "\r"}
             /\ tagEnd # -1
          THEN CaptureFrom(text, startIndex, closeTag, openPattern,
                 IF EndsWith(Substring(text, i, tagEnd + 1), <<"/", ">">>)
                 THEN depth ELSE depth + 1,
                 tagEnd + 1)
          ELSE CaptureFrom(text, startIndex, closeTag, openPattern, depth, i + 1)

capturePreservedContent(text, startIndex, closeTag) ==
  LET tagName == Substring(closeTag, 2, Len(closeTag) - 1)
  IN CaptureFrom(text, startIndex, closeTag, <<"<">> \o tagName, 1, startIndex)

\* the locals of formatXml.  out and commentBuffer hold the pushed strings joined;
\* hang is set when the main loop can no longer advance i.
FormatInit ==
  [out |-> <<>>, depth |-> 0, i |-> 0, preserveDepth |-> 0, elementStack |-> <<>>,
   pendingBlank |-> FALSE, prevSiblingSelfClosing |-> FALSE, commentBuffer |-> <<>>,
   hang |-> FALSE, stop |-> FALSE]

Pop(stack) == IF stack = <<>> THEN stack ELSE SubSeq(stack, 1, Len(stack) - 1)

\* flushBeforeElement without the bothSelfClosing exception
flushBeforeElement_NoSiblingCheck(f, currentIsSelfClosing) ==
  IF ~isBlankLineDepth(f.depth, f.elementStack)
  THEN [f EXCEPT !.out = @ \o f.commentBuffer, !.commentBuffer = <<>>]
  ELSE LET blank == IF f.pendingBlank THEN <<"\n">> ELSE <<>>
       IN [f EXCEPT !.out = @ \o blank \o f.commentBuffer, !.commentBuffer = <<>>]

flushBeforeElement(f, currentIsSelfClosing) ==
  IF ~isBlankLineDepth(f.depth, f.elementStack)
  THEN [f EXCEPT !.out = @ \o f.commentBuffer, !.commentBuffer = <<>>]
  ELSE LET bothSelfClosing == f.prevSiblingSelfClosing /\ currentIsSelfClosing
           blank == IF f.pendingBlank /\ ~bothSelfClosing THEN <<"\n">> ELSE <<>>
       IN [f EXCEPT !.out = @ \o blank \o f.commentBuffer, !.commentBuffer = <<>>]

\* processing instruction: <?...?>
FormatPI(text, indent, f) ==
  LET end == IndexOf(text, <<"?", ">">>, f.i)
      pi == Substring(text, f.i, end + 2)
  IN IF end = -1
     THEN [f EXCEPT !.out = @ \o SubstringFrom(text, f.i), !.stop = TRUE]
     ELSE IF f.preserveDepth > 0
     THEN [f EXCEPT !.out = @ \o pi, !.i = end + 2]
     ELSE [f EXCEPT !.out = @ \o pi \o <<"\n">>, !.i = end + 2]

\* comment: <!--...-->
FormatComment(text, indent, f) ==
  LET end == IndexOf(text, <<"-", "-", ">">>, f.i)
      comment == Substring(text, f.i, end + 3)
      line == indentStr(indent, f.depth) \o comment \o <<"\n">>
  IN IF end = -1
     THEN IF f.preserveDepth > 0
          THEN [f EXCEPT !.out = @ \o SubstringFrom(text, f.i), !.stop = TRUE]
          ELSE [f EXCEPT !.out = @ \o indentStr(indent, f.depth) \o SubstringFrom(text, f.i),
                         !.stop = TRUE]
     ELSE IF f.preserveDepth > 0
     THEN [f EXCEPT !.out = @ \o comment, !.i = end + 3]
     ELSE IF isBlankLineDepth(f.depth, f.elementStack)
     THEN IF hasBlankLineAfter(text, end + 3)
          THEN [flushBeforeElement(f, FALSE) EXCEPT
                  !.out = @ \o line, !.pendingBlank = TRUE,
                  !.prevSiblingSelfClosing = FALSE, !.i = end + 3]
          ELSE [f EXCEPT !.commentBuffer = @ \o line, !.i = end + 3]
     ELSE [f EXCEPT !.out = @ \o line, !.i = end + 3]

\* CDATA: <![CDATA[...]]>
FormatCData(text, indent, f) ==
  LET end == IndexOf(text, <<"]", "]", ">">>, f.i)
      cdata == Substring(text, f.i, end + 3)
  IN IF end = -1
     THEN IF f.preserveDepth > 0
          THEN [f EXCEPT !.out = @ \o SubstringFrom(text, f.i), !.stop = TRUE]
          ELSE [f EXCEPT !.out = @ \o indentStr(indent, f.depth) \o SubstringFrom(text, f.i),
                         !.stop = TRUE]
     ELSE IF f.preserveDepth > 0
     THEN [f EXCEPT !.out = @ \o cdata, !.i = end + 3]
     ELSE [f EXCEPT !.out = @ \o indentStr(indent, f.depth) \o cdata \o <<"\n">>,
                    !.i = end + 3]

\* closing tag: </...>
FormatClosingTag(text, indent, f) ==
  LET end == IndexOf(text, <<">">>, f.i)
      tag == Substring(text, f.i, end + 1)
      tagName == extractTagName(SubstringFrom(tag, 2))
      depth == Max(0, f.depth - 1)
  IN IF end = -1
     THEN [f EXCEPT !.out = @ \o SubstringFrom(text, f.i), !.stop = TRUE]
     ELSE IF f.preserveDepth > 0
     THEN IF tagName \in PRESERVED_ELEMENTS /\ f.preserveDepth - 1 = 0
          THEN [f EXCEPT !.preserveDepth = 0, !.depth = f.depth - 1,
                         !.elementStack = Pop(@),
                         !.out = @ \o indentStr(indent, f.depth - 1) \o tag \o <<"\n">>,
                         !.pendingBlank = TRUE, !.prevSiblingSelfClosing = FALSE,
                         !.i = end + 1]
          ELSE [f EXCEPT !.preserveDepth = IF tagName \in PRESERVED_ELEMENTS
                                           THEN @ - 1 ELSE @,
                         !.out = @ \o tag, !.i = end + 1]
     ELSE [f EXCEPT !.depth = depth, !.elementStack = Pop(@),
                    !.out = @ \o f.commentBuffer \o indentStr(indent, depth) \o tag \o <<"\n">>,
                    !.commentBuffer = <<>>,
                    !.pendingBlank = TRUE, !.prevSiblingSelfClosing = FALSE,
                    !.i = end + 1]

\* opening or self-closing tag: <...> or <.../>
FormatOpeningTag(text, indent, f) ==
  LET end == findTagEnd(text, f.i)
      tag == Substring(text, f.i, end + 1)
      tagName == extractTagName(SubstringFrom(tag, 1))
      selfClosing == EndsWith(tag, <<"/", ">">>)
      g == flushBeforeElement(f, selfClosing)
      closeTag == <<"<", "/">> \o tagName \o <<">">>
      preserved == capturePreservedContent(text, end + 1, closeTag)
      opened == [g EXCEPT !.out = @ \o indentStr(indent, f.depth) \o tag \o <<"\n">>,
                          !.elementStack = Append(@, tagName), !.depth = @ + 1,
                          !.pendingBlank = FALSE, !.prevSiblingSelfClosing = FALSE,
                          !.i = end + 1]
  IN IF end = -1
     THEN [f EXCEPT !.out = @ \o SubstringFrom(text, f.i), !.stop = TRUE]
     ELSE IF f.preserveDepth > 0
     THEN [f EXCEPT !.out = @ \o tag,
                    !.preserveDepth = IF ~selfClosing /\ tagName \in PRESERVED_ELEMENTS
                                      THEN @ + 1 ELSE @,
                    !.i = end + 1]
     ELSE IF selfClosing
     THEN [g EXCEPT !.out = @ \o indentStr(indent, f.depth)
                              \o normalizeSelfClosingTag(tag) \o <<"\n">>,
                    !.pendingBlank = TRUE, !.prevSiblingSelfClosing = TRUE,
                    !.i = end + 1]
     ELSE IF tagName \in PRESERVED_ELEMENTS
     THEN IF preserved.found
          THEN [g EXCEPT !.out = @ \o indentStr(indent, f.depth) \o tag
                                   \o preserved.content \o closeTag \o <<"\n">>,
                         !.pendingBlank = TRUE, !.prevSiblingSelfClosing = FALSE,
                         !.i = preserved.endIndex]
          ELSE opened
     ELSE opened

\* text content
FormatText(text, indent, f) ==
  LET lt == IndexOf(text, <<"<">>, f.i)
      textEnd == IF lt = -1 THEN Len(text) ELSE lt
      trimmed == Trim(Substring(text, f.i, textEnd))
  IN IF f.preserveDepth > 0
     THEN [f EXCEPT !.out = @ \o <<text[f.i + 1]>>, !.i = @ + 1]
     ELSE IF textEnd = f.i
     THEN [f EXCEPT !.hang = TRUE]
     ELSE [f EXCEPT !.out = @ \o (IF Len(trimmed) > 0
                                  THEN indentStr(indent, f.depth) \o trimmed \o <<"\n">>
                                  ELSE <<>>),
                    !.i = textEnd]

\* one iteration of the main loop
FormatToken(text, indent, f) ==
  IF f.preserveDepth = 0 /\ isWhitespace(At(text, f.i)) THEN [f EXCEPT !.i = @ + 1]
  ELSE IF StartsWith(text, <<"<", "?">>, f.i) THEN FormatPI(text, indent, f)
  ELSE IF StartsWith(text, <<"<", "!", "-", "-">>, f.i) THEN FormatComment(text, indent, f)
  ELSE IF StartsWith(text, <<"<","!","[","C","D","A","T","A","[">>, f.i)
  THEN FormatCData(text, indent, f)
  ELSE IF StartsWith(text, <<"<", "/">>, f.i) THEN FormatClosingTag(text, indent, f)
  ELSE IF At(text, f.i) = "<" /\ f.i + 1 < Len(text) /\ IsNameStartChar(At(text, f.i + 1))
  THEN FormatOpeningTag(text, indent, f)
  ELSE FormatText(text, indent, f)

RECURSIVE FormatLoop(_, _, _)
FormatLoop(text, indent, f) ==
  IF f.i >= Len(text) \/ f.stop \/ f.hang THEN f
  ELSE FormatLoop(text, indent, FormatToken(text, indent, f))

\* result.replace(/\n\n(\s*<\/)/g, '\n$1')
RECURSIVE ReplaceBlankBeforeClose(_, _)
ReplaceBlankBeforeClose(s, p) ==
  IF p >= Len(s) THEN <<>>
  ELSE LET w == Span("space", s, p + 2)
       IN IF StartsWith(s, <<"\n", "\n">>, p) /\ StartsWith(s, <<"<", "/">>, w)
          THEN <<"\n">> \o Substring(s, p + 2, w + 2) \o ReplaceBlankBeforeClose(s, w + 2)
          ELSE <<s[p + 1]>> \o ReplaceBlankBeforeClose(s, p + 1)

\* result.replace(/\n+$/, '\n')
RECURSIVE StripNewlines(_)
StripNewlines(s) ==
  IF Len(s) > 0 /\ s[Len(s)] = "\n" THEN StripNewlines(SubSeq(s, 1, Len(s) - 1)) ELSE s

ReplaceTrailingNewlines(s) ==
  IF Len(s) > 0 /\ s[Len(s)] = "\n" THEN StripNewlines(s) \o <<"\n">> ELSE s

\* formatXml: [text, hang]; hang = TRUE when the call does not return
formatXml(text, options) ==
  LET Finish(f) ==
        [text |-> ReplaceTrailingNewlines(
                    ReplaceBlankBeforeClose(f.out \o f.commentBuffer, 0)),
         hang |-> f.hang]
  IN Finish(FormatLoop(text, IndentOf(options), FormatInit))

-----------------------------------------------------------------------------
(* RelaxNG compiler (formattingProvider.ts): parseRng, buildContentModel *)

T_grammar == <<"g","r","a","m","m","a","r">>
T_define == <<"d","e","f","i","n","e">>
T_start == <<"s","t","a","r","t">>
T_element == <<"e","l","e","m","e","n","t">>
T_attribute == <<"a","t","t","r","i","b","u","t","e">>
T_ref == <<"r","e","f">>
T_optional == <<"o","p","t","i","o","n","a","l">>
T_zeroOrMore == <<"z","e","r","o","O","r","M","o","r","e">>
T_oneOrMore == <<"o","n","e","O","r","M","o","r","e">>
T_text == <<"t","e","x","t">>
T_documentation == <<"d","o","c","u","m","e","n","t","a","t","i","o","n">>
T_value == <<"v","a","l","u","e">>
T_param == <<"p","a","r","a","m">>
V_pattern == <<"p","a","t","t","e","r","n">>

localName(name) ==
  LET idx == IndexOf(name, <<":">>, 0)
  IN IF idx >= 0 THEN SubstringFrom(name, idx + 1) ELSE name

\* attrs[key] || ''
AttrOrEmpty(attrs, key) == IF MapHas(attrs, key) THEN MapGet(attrs, key) ELSE <<>>

\* the ParseState parseRng starts from.  A nullable object is <<>> (null) or
\* <<object>>; capturingText is "" for null; an undefined string or list is <<>>.
ParseStateInit ==
  [defines |-> <<>>, startRef |-> <<>>, namespace |-> <<>>, stack |-> <<>>,
   currentDefine |-> <<>>, currentAttribute |-> <<>>, currentValues |-> <<>>,
   optionalDepth |-> 0, textBuffer |-> <<>>, capturingText |-> ""]

DefineBlock(name) ==
  [name |-> name, elementName |-> <<>>, documentation |-> <<>>, attributes |-> <<>>,
   childRefs |-> <<>>, allowsText |-> FALSE]

\* the constructs counted by optionalDepth, as if oneOrMore were one of them
CountsAsOptional_OneOrMore(tag) == tag \in {T_optional, T_zeroOrMore, T_oneOrMore}

\* case 'optional': case 'zeroOrMore': the constructs counted by optionalDepth
CountsAsOptional(tag) == tag \in {T_optional, T_zeroOrMore}

\* parser.onopentag
onopentag(state, node) ==
  LET attrs == node.attributes
      \* the handler once the tag is on the stack (s is the state after the push)
      Opened(tag, name, s) ==
        LET hasDefine == s.currentDefine # <<>>
            inStart == \E k \in 1..Len(s.stack) : s.stack[k].tag = T_start
            capture(what) == [s EXCEPT !.capturingText = what, !.textBuffer = <<>>]
        IN CASE tag = T_grammar ->
                  IF AttrOrEmpty(attrs, "ns") # <<>>
                  THEN [s EXCEPT !.namespace = AttrOrEmpty(attrs, "ns")] ELSE s
             [] tag = T_define -> [s EXCEPT !.currentDefine = <<DefineBlock(name)>>]
             [] tag = T_element ->
                  IF hasDefine /\ s.currentDefine[1].elementName = <<>>
                  THEN [s EXCEPT !.currentDefine[1].elementName = name] ELSE s
             [] tag = T_attribute ->
                  [s EXCEPT !.currentAttribute =
                              << [name |-> name, documentation |-> <<>>,
                                  required |-> (s.optionalDepth = 0),
                                  values |-> <<>>, pattern |-> <<>>] >>,
                            !.currentValues = <<>>]
             [] tag = T_ref ->
                  LET Start(r) ==
                        IF inStart /\ ~hasDefine THEN [r EXCEPT !.startRef = name] ELSE r
                  IN Start(IF hasDefine
                           THEN [s EXCEPT !.currentDefine[1].childRefs = Append(@, name)]
                           ELSE s)
             [] CountsAsOptional(tag) -> [s EXCEPT !.optionalDepth = @ + 1]
             [] tag = T_text ->
                  IF hasDefine THEN [s EXCEPT !.currentDefine[1].allowsText = TRUE] ELSE s
             [] tag = T_documentation -> capture("documentation")
             [] tag = T_value -> capture("value")
             [] tag = T_param -> IF name = V_pattern THEN capture("pattern") ELSE s
             [] OTHER -> s
      Push(tag) ==
        Opened(tag, AttrOrEmpty(attrs, "name"),
               [state EXCEPT !.stack = Append(@, [tag |-> tag, attrs |-> attrs])])
  IN Push(localName(node.name))

\* parser.ontext / parser.oncdata
ontext(state, text) ==
  IF state.capturingText # "" THEN [state EXCEPT !.textBuffer = @ \o text] ELSE state

\* parser.onclosetag
onclosetag(state, name) ==
  LET Closed(tag, s, buffer) ==
        LET hasDefine == s.currentDefine # <<>>
            hasAttribute == s.currentAttribute # <<>>
            done == [s EXCEPT !.capturingText = "", !.textBuffer = <<>>]
            last == Len(s.currentValues)
        IN CASE tag = T_define ->
                  IF hasDefine
                  THEN [s EXCEPT !.defines = MapSet(@, s.currentDefine[1].name, s.currentDefine[1]),
                                 !.currentDefine = <<>>]
                  ELSE s
             [] tag = T_attribute ->
                  IF hasAttribute /\ hasDefine
                  THEN LET attribute == IF Len(s.currentValues) > 0
                                        THEN [s.currentAttribute[1] EXCEPT !.values = s.currentValues]
                                        ELSE s.currentAttribute[1]
                       IN [s EXCEPT !.currentDefine[1].attributes = Append(@, attribute),
                                    !.currentAttribute = <<>>, !.currentValues = <<>>]
                  ELSE s
             [] CountsAsOptional(tag) -> [s EXCEPT !.optionalDepth = @ - 1]
             [] tag = T_documentation ->
                  IF hasAttribute /\ last > 0
                  THEN IF s.currentValues[last].documentation = <<>>
                       THEN [done EXCEPT !.currentValues[last].documentation = buffer] ELSE done
                  ELSE IF hasAttribute
                  THEN IF s.currentAttribute[1].documentation = <<>>
                       THEN [done EXCEPT !.currentAttribute[1].documentation = buffer] ELSE done
                  ELSE IF hasDefine /\ s.currentDefine[1].documentation = <<>>
                  THEN [done EXCEPT !.currentDefine[1].documentation = buffer]
                  ELSE done
             [] tag = T_value ->
                  [done EXCEPT !.currentValues = Append(@, [value |-> buffer, documentation |-> <<>>])]
             [] tag = T_param ->
                  IF s.capturingText = "pattern"
                  THEN IF hasAttribute
                       THEN [done EXCEPT !.currentAttribute[1].pattern = buffer] ELSE done
                  ELSE s
             [] OTHER -> s
  IN Closed(localName(name), [state EXCEPT !.stack = Pop(@)], Trim(state.textBuffer))

\* [...new Set(list)]: first occurrences, in order
RECURSIVE Unique(_)
Unique(list) ==
  IF list = <<>> THEN <<>>
  ELSE LET front == Unique(SubSeq(list, 1, Len(list) - 1))
           x == list[Len(list)]
       IN IF \E k \in 1..Len(front) : front[k] = x THEN front ELSE Append(front, x)

\* the allowedChildren loop of buildContentModel
RECURSIVE AllowedChildren(_, _)
AllowedChildren(defines, childRefs) ==
  IF childRefs = <<>> THEN <<>>
  ELSE LET ref == Head(childRefs)
           rest == AllowedChildren(defines, Tail(childRefs))
       IN IF MapHas(defines, ref) /\ MapGet(defines, ref).elementName # <<>>
          THEN <<MapGet(defines, ref).elementName>> \o rest
          ELSE rest

\* the loop of buildContentModel over state.defines, in Map iteration order
RECURSIVE BuildElements(_, _, _)
BuildElements(defines, k, elements) ==
  IF k > Len(defines) THEN elements
  ELSE LET define == defines[k].val
       IN IF define.elementName = <<>> THEN BuildElements(defines, k + 1, elements)
          ELSE BuildElements(defines, k + 1,
                 MapSet(elements, define.elementName,
                   [name |-> define.elementName,
                    documentation |-> define.documentation,
                    attributes |-> define.attributes,
                    allowedChildren |-> Unique(AllowedChildren(defines, define.childRefs)),
                    allowsText |-> define.allowsText]))

buildContentModel(state) ==
  [elements |-> BuildElements(state.defines, 1, <<>>), namespace |-> state.namespace]

-----------------------------------------------------------------------------
(* Catalog parser (catalog.ts): parseCatalog *)

T_uri == <<"u","r","i">>
T_system == <<"s","y","s","t","e","m">>
T_public == <<"p","u","b","l","i","c">>

\* parser.onopentag of parseCatalog
CatalogOpenTag(catalog, node) ==
  LET tag == localName(node.name)
      attrs == node.attributes
      key == CASE tag = T_uri -> AttrOrEmpty(attrs, "name")
               [] tag = T_system -> AttrOrEmpty(attrs, "systemId")
               [] tag = T_public -> AttrOrEmpty(attrs, "publicId")
               [] OTHER -> <<>>
  IN IF key # <<>> /\ AttrOrEmpty(attrs, "uri") # <<>>
     THEN MapSet(catalog, key, AttrOrEmpty(attrs, "uri"))
     ELSE catalog

\* parseCatalog on a catalog document given as its SAX events
RECURSIVE ParseCatalogEvents(_, _)
ParseCatalogEvents(catalog, events) ==
  IF events = <<>> THEN catalog
  ELSE ParseCatalogEvents(
         IF Head(events).type = "opentag" THEN CatalogOpenTag(catalog, Head(events))
         ELSE catalog,
         Tail(events))

parseCatalog(content) == ParseCatalogEvents(<<>>, content)

-----------------------------------------------------------------------------
(* parseRng as one call: the handlers applied to every event of the schema *)

RECURSIVE ParseRngEvents(_, _)
ParseRngEvents(state, events) ==
  \* (comparing state with itself has it evaluated before the events are looked at)
  IF events = <<>> \/ state # state THEN state
  ELSE IF Len(events) = 1
  THEN CASE events[1].type = "opentag" -> onopentag(state, events[1])
         [] events[1].type = "closetag" -> onclosetag(state, events[1].name)
         [] OTHER -> ontext(state, events[1].text)
  \* the events are handled in order: the first half, then the second half
  ELSE ParseRngEvents(ParseRngEvents(state, SubSeq(events, 1, Len(events) \div 2)),
                      SubSeq(events, Len(events) \div 2 + 1, Len(events)))

parseRng(content) == buildContentModel(ParseRngEvents(ParseStateInit, content))

-----------------------------------------------------------------------------
(* Language server (server.ts): schema resolution and caches *)

NS_Publisher ==
  << "u","r","n",":","s","p","e","e","d","a","t","a",".","d","e",":",
     "2","0","0","9","/","p","u","b","l","i","s","h","e","r","/","e","n" >>
F_layoutschema_en ==
  <<"l","a","y","o","u","t","s","c","h","e","m","a","-","e","n",".","r","n","g">>
F_layoutschema_de ==
  <<"l","a","y","o","u","t","s","c","h","e","m","a","-","d","e",".","r","n","g">>
L_auto == <<"a","u","t","o">>
L_de == <<"d","e">>
L_en == <<"e","n">>

\* path.resolve(__dirname, '..', '..', 'schemas', schemaFile); the extension is
\* installed in /e
BuiltinSchemaPath(schemaFile) ==
  <<"/","e","/","s","c","h","e","m","a","s","/">> \o schemaFile

\* s.lastIndexOf('/')
RECURSIVE LastSlash(_, _)
LastSlash(p, i) == IF i < 0 THEN -1 ELSE IF At(p, i) = "/" THEN i ELSE LastSlash(p, i - 1)

\* path.dirname on a POSIX path
Dirname(p) ==
  LET k == LastSlash(p, Len(p) - 1)
  IN IF k = -1 THEN <<".">> ELSE IF k = 0 THEN <<"/">> ELSE Substring(p, 0, k)

\* path.resolve(dir, rel) for an absolute dir and a rel without "." or ".." segments
PathResolve(dir, rel) ==
  IF At(rel, 0) = "/" THEN rel
  ELSE IF dir = <<"/">> THEN dir \o rel
  ELSE dir \o <<"/">> \o rel

\* a file: absent, present but unreadable, or present with its content
Absent == [state |-> "absent", content |-> <<>>]
Unreadable == [state |-> "unreadable", content |-> <<>>]
File(content) == [state |-> "file", content |-> content]
FileAt(files, p) == IF p \in DOMAIN files THEN files[p] ELSE Absent
existsSync(files, p) == FileAt(files, p).state # "absent"

\* text.match(/<\?xml-model\s+href="([^"]+)"[^?]*\?>/) tried at offset i:
\* <<href>> or <<>>
PiRegexAt(text, i) ==
  LET lit == <<"<","?","x","m","l","-","m","o","d","e","l">>
      s0 == i + Len(lit)
      s1 == Span("space", text, s0)
      v0 == s1 + 6
      v1 == Span("nodquote", text, v0)
      q == Span("noquestion", text, v1 + 1)
  IN IF /\ StartsWith(text, lit, i)
        /\ s1 > s0
        /\ StartsWith(text, <<"h","r","e","f","=","\"">>, s1)
        /\ v1 > v0
        /\ At(text, v1) = "\""
        /\ StartsWith(text, <<"?",">">>, q)
     THEN <<Substring(text, v0, v1)>>
     ELSE <<>>

\* the leftmost match at or after offset i
PiMatchFrom(text, i) ==
  IF \E j \in i..(Len(text) - 1) : PiRegexAt(text, j) # <<>>
  THEN PiRegexAt(text, CHOOSE j \in i..(Len(text) - 1) :
                         /\ PiRegexAt(text, j) # <<>>
                         /\ \A k \in i..(j - 1) : PiRegexAt(text, k) = <<>>)
  ELSE <<>>

\* text.match(/xmlns="([^"]+)"/) tried at offset i: <<ns>> or <<>>
NsRegexAt(text, i) ==
  LET v0 == i + 7
      v1 == Span("nodquote", text, v0)
  IN IF /\ StartsWith(text, <<"x","m","l","n","s","=","\"">>, i)
        /\ v1 > v0
        /\ At(text, v1) = "\""
     THEN <<Substring(text, v0, v1)>>
     ELSE <<>>

\* the leftmost match at or after offset i
NsMatchFrom(text, i) ==
  IF \E j \in i..(Len(text) - 1) : NsRegexAt(text, j) # <<>>
  THEN NsRegexAt(text, CHOOSE j \in i..(Len(text) - 1) :
                         /\ NsRegexAt(text, j) # <<>>
                         /\ \A k \in i..(j - 1) : NsRegexAt(text, k) = <<>>)
  ELSE <<>>

SpeedataSettings(catalog, schemaLanguage) ==
  [catalog |-> catalog, schemaLanguage |-> schemaLanguage]

resolveLanguage(settings, language) ==
  IF settings.schemaLanguage = L_auto THEN language ELSE settings.schemaLanguage

\* The caches and the outputs of the handler that is running:
\*   schemaCache, catalogCache   the two Maps
\*   calls      the loadSchema / loadCatalog calls the handler made, in order
\*   compiled   the schema paths the handler passed to parseRng
Call(fn, path, found) == [fn |-> fn, path |-> path, found |-> found]

\* (a variant without the cache lookup)
loadSchema_NoCacheLookup(c, files, schemaPath) ==
  LET called(found) == [c EXCEPT !.calls = Append(@, Call("loadSchema", schemaPath, found))]
      cached(model) == [model |-> <<model>>,
                        c |-> [called(TRUE) EXCEPT
                                 !.schemaCache = MapSet(@, schemaPath, model),
                                 !.compiled = Append(@, schemaPath)]]
  IN IF FileAt(files, schemaPath).state # "file"
     THEN [model |-> <<>>, c |-> called(FALSE)]
     ELSE cached(parseRng(FileAt(files, schemaPath).content))

\* loadSchema: [model, c]; model is <<>> for undefined, else <<ContentModel>>
loadSchema(c, files, schemaPath) ==
  LET called(found) == [c EXCEPT !.calls = Append(@, Call("loadSchema", schemaPath, found))]
      cached(model) == [model |-> <<model>>,
                        c |-> [called(TRUE) EXCEPT
                                 !.schemaCache = MapSet(@, schemaPath, model),
                                 !.compiled = Append(@, schemaPath)]]
  IN IF MapHas(c.schemaCache, schemaPath)
     THEN [model |-> <<MapGet(c.schemaCache, schemaPath)>>, c |-> called(TRUE)]
     ELSE IF ~existsSync(files, schemaPath)
     THEN [model |-> <<>>, c |-> called(FALSE)]
     ELSE IF FileAt(files, schemaPath).state = "unreadable"
     THEN [model |-> <<>>, c |-> called(FALSE)]     \* readFileSync throws: caught
     ELSE cached(parseRng(FileAt(files, schemaPath).content))

\* loadCatalog: [catalog, c]; catalog is <<>> for undefined, else <<Map>>
loadCatalog(c, files, catalogPath) ==
  LET called(found) == [c EXCEPT !.calls = Append(@, Call("loadCatalog", catalogPath, found))]
      cached(catalog) == [catalog |-> <<catalog>>,
                          c |-> [called(TRUE) EXCEPT
                                   !.catalogCache = MapSet(@, catalogPath, catalog)]]
  IN IF MapHas(c.catalogCache, catalogPath)
     THEN [catalog |-> <<MapGet(c.catalogCache, catalogPath)>>, c |-> called(TRUE)]
     ELSE IF ~existsSync(files, catalogPath)
     THEN [catalog |-> <<>>, c |-> called(FALSE)]
     ELSE IF FileAt(files, catalogPath).state = "unreadable"
     THEN [catalog |-> <<>>, c |-> called(FALSE)]
     ELSE cached(parseCatalog(FileAt(files, catalogPath).content))

\* docUri of resolveSchemaForDocument
DocPath(uri) ==
  IF StartsWith(uri, <<"f","i","l","e",":","/","/">>, 0) THEN SubstringFrom(uri, 7) ELSE uri

\* resolveSchemaForDocument, steps 2 and 3: the catalog, then the built-in schema
ResolveByNamespace(c, files, settings, language, text) ==
  LET lang == resolveLanguage(settings, language)
      schemaFile == IF StartsWith(lang, L_de, 0)
                    THEN F_layoutschema_de ELSE F_layoutschema_en
      \* step 3, with the caches as step 2 left them
      Builtin(nsMatch, c2) ==
        IF nsMatch # <<>> /\ nsMatch[1] = NS_Publisher
        THEN loadSchema(c2, files, BuiltinSchemaPath(schemaFile))
        ELSE [model |-> <<>>, c |-> c2]
      \* step 2, once the catalog has been loaded
      Catalog(nsMatch, cat) ==
        IF cat.catalog # <<>> /\ MapHas(cat.catalog[1], nsMatch[1])
        THEN loadSchema(cat.c, files,
                        PathResolve(Dirname(settings.catalog),
                                    MapGet(cat.catalog[1], nsMatch[1])))
        ELSE Builtin(nsMatch, cat.c)
      Resolve(nsMatch) ==
        IF settings.catalog # <<>> /\ nsMatch # <<>>
        THEN Catalog(nsMatch, loadCatalog(c, files, settings.catalog))
        ELSE Builtin(nsMatch, c)
  IN Resolve(NsMatchFrom(text, 0))

\* (a variant that goes on to the catalog when the instruction's schema yields no model)
resolveSchemaForDocument_FallsThrough(c, files, settings, language, uri, text) ==
  LET Loaded(load) ==
        IF load.model # <<>> THEN load
        ELSE ResolveByNamespace(load.c, files, settings, language, text)
      Resolve(piMatch) ==
        IF piMatch # <<>>
        THEN Loaded(loadSchema(c, files, PathResolve(Dirname(DocPath(uri)), piMatch[1])))
        ELSE ResolveByNamespace(c, files, settings, language, text)
  IN Resolve(PiMatchFrom(text, 0))

\* resolveSchemaForDocument: [model, c]
resolveSchemaForDocument(c, files, settings, language, uri, text) ==
  LET Resolve(piMatch) ==
        IF piMatch # <<>>
        THEN loadSchema(c, files, PathResolve(Dirname(DocPath(uri)), piMatch[1]))
        ELSE ResolveByNamespace(c, files, settings, language, text)
  IN Resolve(PiMatchFrom(text, 0))

\* what a handler remembers of one resolution: the model it got and the loads made
Resolution(r) == <<[model |-> r.model, calls |-> r.c.calls]>>

\* (a variant that sends nothing when there is no model)
validateOpenDocument_SkipsClear(c, files, settings, language, uri, text) ==
  LET Send(c1, v) ==
        IF v.threw THEN [c1 EXCEPT !.threw = TRUE]
        ELSE [c1 EXCEPT !.published[uri] = <<v.diagnostics>>]
      Publish(r, c1) ==
        IF r.model = <<>> THEN c1
        ELSE Send(c1, validateDocument(text, r.model[1]))
      Resolved(r) == Publish(r, [r.c EXCEPT !.resolved[uri] = Resolution(r)])
  IN Resolved(resolveSchemaForDocument([c EXCEPT !.calls = <<>>], files, settings, language,
                                       uri, text))

\* validateOpenDocument: published[uri] is <<the diagnostics last sent>>
validateOpenDocument(c, files, settings, language, uri, text) ==
  LET Send(c1, v) ==
        IF v.threw THEN [c1 EXCEPT !.threw = TRUE]
        ELSE [c1 EXCEPT !.published[uri] = <<v.diagnostics>>]
      Publish(r, c1) ==
        IF r.model = <<>>
        THEN [c1 EXCEPT !.published[uri] = << <<>> >>]
        ELSE Send(c1, validateDocument(text, r.model[1]))
      Resolved(r) == Publish(r, [r.c EXCEPT !.resolved[uri] = Resolution(r)])
  IN Resolved(resolveSchemaForDocument([c EXCEPT !.calls = <<>>], files, settings, language,
                                       uri, text))

\* documents.all().forEach(validateOpenDocument); an exception ends the loop
RECURSIVE ValidateAll(_, _, _, _, _, _)
ValidateAll(c, files, settings, language, docs, k) ==
  IF k > Len(docs) \/ c.threw THEN c
  ELSE ValidateAll(validateOpenDocument(c, files, settings, language, docs[k].key, docs[k].val),
                   files, settings, language, docs, k + 1)

\* onCompletion / onHover up to the call of getCompletions / getHover: the reply is
\* "empty" ([] or null) or "provider" (what the provider returns for the model)
Request(c, files, settings, language, docs, uri) ==
  LET Answer(r) == [reply |-> IF r.model = <<>> THEN "empty" ELSE "provider",
                    c |-> [r.c EXCEPT !.resolved[uri] = Resolution(r)]]
  IN IF ~MapHas(docs, uri) THEN [reply |-> "empty", c |-> c]
     ELSE Answer(resolveSchemaForDocument([c EXCEPT !.calls = <<>>], files, settings,
                                          language, uri, MapGet(docs, uri)))

\* Map.prototype.delete
MapDelete(m, key) == SelectSeq(m, LAMBDA entry : entry.key # key)

-----------------------------------------------------------------------------
(* Cursor context resolver (xmlDocumentAnalyzer.ts): analyzeDocument *)

\* a CursorContext; an optional field is <<>> when absent, <<value>> when present
CursorContext(type, elementStack, currentElement) ==
  [type |-> type, elementStack |-> elementStack, currentElement |-> currentElement,
   attributeName |-> <<>>, attributePrefix |-> <<>>, elementPrefix |-> <<>>,
   existingAttributes |-> <<>>]

\* the while loop of isInsideCommentOrCDATA, from i
RECURSIVE InsideCommentOrCDATAFrom(_, _, _)
InsideCommentOrCDATAFrom(text, offset, i) ==
  LET Block(end) ==
        IF end = -1 \/ end + 3 > offset THEN TRUE
        ELSE InsideCommentOrCDATAFrom(text, offset, end + 3)
  IN IF i >= offset THEN FALSE
     ELSE IF StartsWith(text, <<"<","!","-","-">>, i)
     THEN Block(IndexOf(text, <<"-","-",">">>, i + 4))
     ELSE IF StartsWith(text, <<"<","!","[","C","D","A","T","A","[">>, i)
     THEN Block(IndexOf(text, <<"]","]",">">>, i + 9))
     ELSE InsideCommentOrCDATAFrom(text, offset, i + 1)

isInsideCommentOrCDATA(text, offset) == InsideCommentOrCDATAFrom(text, offset, 0)

\* /<\/?([a-zA-Z_][\w:.-]*)[^>]*?\/?>/ attempted at offset m:
\* [ok, nameStart, nameEnd, gt]; the match ends with the first '>' after the name
StackTagRegexAt(text, m) ==
  LET n0 == IF At(text, m + 1) = "/" THEN m + 2 ELSE m + 1
      Ended(nameEnd, gt) ==
        IF gt # -1
        THEN [ok |-> TRUE, nameStart |-> n0, nameEnd |-> nameEnd, gt |-> gt]
        ELSE [ok |-> FALSE, nameStart |-> -1, nameEnd |-> -1, gt |-> -1]
      Named(nameEnd) == Ended(nameEnd, IndexOf(text, <<">">>, nameEnd))
  IN IF At(text, m) = "<" /\ IsNameStartChar(At(text, n0))
     THEN Named(Span("name", text, n0 + 1))
     ELSE [ok |-> FALSE, nameStart |-> -1, nameEnd |-> -1, gt |-> -1]

\* stack.lastIndexOf(x)
LastIndexOf(stack, x) ==
  IF \E k \in 1..Len(stack) : stack[k] = x
  THEN (CHOOSE k \in 1..Len(stack) :
          stack[k] = x /\ \A j \in (k + 1)..Len(stack) : stack[j] # x) - 1
  ELSE -1

\* the while loop of buildElementStack, tagRegex.lastIndex being from
RECURSIVE BuildElementStackFrom(_, _, _, _)
BuildElementStackFrom(text, offset, from, stack) ==
  LET Closing(idx) == IF idx >= 0 THEN SubSeq(stack, 1, idx) ELSE stack
      Tag(index, match) ==
        IF index >= offset THEN stack
        ELSE BuildElementStackFrom(text, offset, match.gt + 1,
               IF At(text, index + 1) = "/"
               THEN Closing(LastIndexOf(stack, Substring(text, match.nameStart,
                                                         match.nameEnd)))
               ELSE IF At(text, match.gt - 1) = "/"
               THEN stack
               ELSE Append(stack, Substring(text, match.nameStart, match.nameEnd)))
      Found(index) == Tag(index, StackTagRegexAt(text, index))
  IN IF \E j \in from..(Len(text) - 1) : StackTagRegexAt(text, j).ok
     THEN Found(CHOOSE j \in from..(Len(text) - 1) :
                  /\ StackTagRegexAt(text, j).ok
                  /\ \A k \in from..(j - 1) : ~StackTagRegexAt(text, k).ok)
     ELSE stack

buildElementStack(text, offset) == BuildElementStackFrom(text, offset, 0, <<>>)

\* the while loop of extractAttributes, attrRegex.lastIndex being from
RECURSIVE ExtractAttributesFrom(_, _, _)
ExtractAttributesFrom(tagContent, from, attrs) ==
  LET Matched(index, match) ==
        ExtractAttributesFrom(tagContent, match.valEnd + 1,
          MapSet(attrs, Substring(tagContent, index, match.nameEnd),
                 Substring(tagContent, match.valStart, match.valEnd)))
      Found(index) == Matched(index, AttrRegexAt(tagContent, index))
  IN IF \E j \in from..(Len(tagContent) - 1) : AttrRegexAt(tagContent, j).ok
     THEN Found(CHOOSE j \in from..(Len(tagContent) - 1) :
                  /\ AttrRegexAt(tagContent, j).ok
                  /\ \A k \in from..(j - 1) : ~AttrRegexAt(tagContent, k).ok)
     ELSE attrs

extractAttributes(tagContent) == ExtractAttributesFrom(tagContent, 0, <<>>)

\* s.match(/(\w[\w:.-]*)=["']([^"']*)$/): <<group 1>> or <<>> for null
AttrValueMatch(s) ==
  LET At_(p) ==
        /\ IsWordChar(At(s, p))
        /\ At(s, Span("name", s, p + 1)) = "="
        /\ At(s, Span("name", s, p + 1) + 1) \in {"\"", "'"}
        /\ Span("noquote", s, Span("name", s, p + 1) + 2) = Len(s)
      Found(p) == <<Substring(s, p, Span("name", s, p + 1))>>
  IN IF \E p \in 0..(Len(s) - 1) : At_(p)
     THEN Found(CHOOSE p \in 0..(Len(s) - 1) : At_(p) /\ \A k \in 0..(p - 1) : ~At_(k))
     ELSE <<>>

\* s.match(/\s(\w[\w:.-]*)$/): <<group 1>> or <<>> for null
AttrNameMatch(s) ==
  LET At_(p) ==
        /\ isWhitespace(At(s, p))
        /\ IsWordChar(At(s, p + 1))
        /\ Span("name", s, p + 2) = Len(s)
  IN IF \E p \in 0..(Len(s) - 1) : At_(p)
     THEN <<SubstringFrom(s, (CHOOSE p \in 0..(Len(s) - 1) : At_(p)) + 1)>>
     ELSE <<>>

\* (a variant that takes the offset just behind the name as past the name)
OnElementName_Exclusive(offset, lastOpenBracket, nameLength) ==
  offset < lastOpenBracket + 1 + nameLength

\* "Check if cursor is still on the element name"
OnElementName(offset, lastOpenBracket, nameLength) ==
  offset <= lastOpenBracket + 1 + nameLength

\* determineCursorContext, inside the tag that starts at lastOpenBracket and,
\* past the element name, among its attributes
AttributeContext(text, offset, elementStack, tagElementName, afterName, textBeforeCursor) ==
  LET stack == SubSeq(elementStack, 1, Len(elementStack) - 1) \o <<tagElementName>>
      In(type) ==
        [CursorContext(type, stack, tagElementName) EXCEPT
           !.existingAttributes = <<extractAttributes(afterName)>>]
      \* attrContinues[0].length
      continues == Span("name", text, offset) - offset
      Name(attrHoverMatch) ==
        IF /\ attrHoverMatch # <<>>
           /\ At(text, Span("space", text, offset + continues)) = "="
        THEN [In("attributeHover") EXCEPT
                !.attributeName = <<attrHoverMatch[1]
                                    \o Substring(text, offset, offset + continues)>>]
        ELSE [In("attributeName") EXCEPT
                !.attributePrefix = IF attrHoverMatch # <<>>
                                    THEN attrHoverMatch ELSE << <<>> >>]
      Value(attrValueMatch) ==
        IF attrValueMatch # <<>>
        THEN [In("attributeValue") EXCEPT !.attributeName = attrValueMatch]
        ELSE Name(AttrNameMatch(textBeforeCursor))
  IN Value(AttrValueMatch(textBeforeCursor))

\* determineCursorContext, inside the tag that starts at lastOpenBracket
TagContext(text, offset, elementStack, currentElement, lastOpenBracket) ==
  LET \* afterBracket, and the length of elemNameMatch[0] (0 for no match)
      Named(afterBracket, nameLength) ==
        IF nameLength = 0
        THEN [CursorContext("elementOpen", elementStack, currentElement) EXCEPT
                !.elementPrefix =
                   <<Trim(SubstringFrom(Substring(text, lastOpenBracket, offset), 1))>>]
        ELSE IF OnElementName(offset, lastOpenBracket, nameLength)
        THEN [CursorContext("elementHover", elementStack,
                            Substring(afterBracket, 0, nameLength)) EXCEPT
                !.elementPrefix =
                   <<Substring(Substring(afterBracket, 0, nameLength), 0,
                               offset - lastOpenBracket - 1)>>]
        ELSE AttributeContext(text, offset, elementStack,
               Substring(afterBracket, 0, nameLength),
               SubstringFrom(afterBracket, nameLength),
               Substring(SubstringFrom(afterBracket, nameLength), 0,
                         offset - (lastOpenBracket + 1 + nameLength)))
      After(afterBracket) ==
        Named(afterBracket,
              IF IsNameStartChar(At(afterBracket, 0))
              THEN Span("name", afterBracket, 1) ELSE 0)
      Full(fullTagContent) ==
        IF StartsWith(fullTagContent, <<"<","/">>, 0)
        THEN CursorContext("unknown", elementStack, currentElement)
        ELSE IF StartsWith(fullTagContent, <<"<","?">>, 0)
        THEN CursorContext("unknown", elementStack, currentElement)
        ELSE After(SubstringFrom(fullTagContent, 1))
      End(tagEnd) ==
        Full(Substring(text, lastOpenBracket,
                       (IF tagEnd = -1 THEN Len(text) ELSE tagEnd) + 1))
  IN End(IndexOf(text, <<">">>, lastOpenBracket))

\* determineCursorContext(text, offset), elementStack being the closure's
determineCursorContext(text, offset, elementStack) ==
  LET currentElement ==
        IF Len(elementStack) > 0 THEN elementStack[Len(elementStack)] ELSE <<>>
      \* the for loop: i is the nearest '<' or '>' before the offset
      Bracket(i) ==
        IF text[i + 1] = "<"
        THEN TagContext(text, offset, elementStack, currentElement, i)
        ELSE CursorContext("content", elementStack, currentElement)
  IN IF \E i \in 0..(offset - 1) : text[i + 1] \in {"<", ">"}
     THEN Bracket(CHOOSE i \in 0..(offset - 1) :
                    /\ text[i + 1] \in {"<", ">"}
                    /\ \A j \in (i + 1)..(offset - 1) : text[j + 1] \notin {"<", ">"})
     ELSE CursorContext("content", elementStack, currentElement)

\* analyzeDocument(doc, position), offset being doc.offsetAt(position)
analyzeDocument(text, offset) ==
  IF isInsideCommentOrCDATA(text, offset)
  THEN CursorContext("unknown", <<>>, <<>>)
  ELSE determineCursorContext(text, offset, buildElementStack(text, offset))

-----------------------------------------------------------------------------
(* Linked editing (server.ts): getLinkedEditingRanges *)

\* (?:[^>"']|"[^"]*"|'[^']*')*> attempted at offset i: the offset of the ">" that
\* ends the match, -1 if there is none
RECURSIVE TagBodyEnd(_, _)
TagBodyEnd(text, i) ==
  LET Quoted(close) == IF close = -1 THEN -1 ELSE TagBodyEnd(text, close + 1)
  IN IF i >= Len(text) THEN -1
     ELSE IF text[i + 1] = ">" THEN i
     ELSE IF text[i + 1] \in {"\"", "'"}
     THEN Quoted(IndexOf(text, <<text[i + 1]>>, i + 1))
     ELSE TagBodyEnd(text, i + 1)

\* /<(\/?)(([a-zA-Z_][\w:.-]*))(?:[^>"']|"[^"]*"|'[^']*')*>/ attempted at offset m:
\* [ok, index, isClose, isSelfClose, name, gt]
LinkTagRegexAt(text, m) ==
  LET n0 == IF At(text, m + 1) = "/" THEN m + 2 ELSE m + 1
      NoMatch == [ok |-> FALSE, index |-> m, isClose |-> FALSE, isSelfClose |-> FALSE,
                  name |-> <<>>, gt |-> -1]
      Ended(nameEnd, gt) ==
        IF gt = -1 THEN NoMatch
        ELSE [ok |-> TRUE, index |-> m, isClose |-> At(text, m + 1) = "/",
              isSelfClose |-> At(text, gt - 1) = "/",
              name |-> Substring(text, n0, nameEnd), gt |-> gt]
      Named(nameEnd) == Ended(nameEnd, TagBodyEnd(text, nameEnd))
  IN IF At(text, m) = "<" /\ IsNameStartChar(At(text, n0))
     THEN Named(Span("name", text, n0 + 1))
     ELSE NoMatch

\* tagRegex.exec(text) with lastIndex = from: the leftmost match, or one with ok
\* FALSE for null
LinkTagExec(text, from) ==
  LET MatchAt(j) == text[j + 1] = "<" /\ LinkTagRegexAt(text, j).ok
  IN IF \E j \in from..(Len(text) - 1) : MatchAt(j)
     THEN LinkTagRegexAt(text, CHOOSE j \in from..(Len(text) - 1) :
                                 MatchAt(j) /\ \A k \in from..(j - 1) : ~MatchAt(k))
     ELSE LinkTagRegexAt(text, Len(text))

\* a range of the reply, as offsets
OffsetRange(start, end) == [start |-> start, end |-> end]

\* the while loop of findMatchingCloseTag: <<>> for null, else <<the range>>
RECURSIVE MatchingCloseFrom(_, _, _, _)
MatchingCloseFrom(text, tagName, from, depth) ==
  LET Tag(m) ==
        IF ~m.ok THEN <<>>
        ELSE IF m.name # tagName \/ m.isSelfClose
        THEN MatchingCloseFrom(text, tagName, m.gt + 1, depth)
        ELSE IF m.isClose
        THEN IF depth - 1 = 0
             THEN <<OffsetRange(m.index + 2, m.index + 2 + Len(m.name))>>
             ELSE MatchingCloseFrom(text, tagName, m.gt + 1, depth - 1)
        ELSE MatchingCloseFrom(text, tagName, m.gt + 1, depth + 1)
  IN Tag(LinkTagExec(text, from))

findMatchingCloseTag(text, openTagOffset, tagName) ==
  LET From(startSearch) ==
        IF startSearch = -1 THEN <<>>
        ELSE IF At(text, startSearch - 1) = "/" THEN <<>>
        ELSE MatchingCloseFrom(text, tagName, startSearch + 1, 1)
  IN From(IndexOf(text, <<">">>, openTagOffset))

\* the tags findMatchingOpenTag collects: those that start before closeTagOffset
RECURSIVE TagsBefore(_, _, _)
TagsBefore(text, closeTagOffset, from) ==
  LET Tag(m) ==
        IF ~m.ok \/ m.index >= closeTagOffset THEN <<>>
        ELSE <<m>> \o TagsBefore(text, closeTagOffset, m.gt + 1)
  IN Tag(LinkTagExec(text, from))

\* the backward walk of findMatchingOpenTag over tags[1..i]
RECURSIVE MatchingOpenFrom(_, _, _, _)
MatchingOpenFrom(tags, tagName, i, depth) ==
  IF i < 1 THEN <<>>
  ELSE IF tags[i].name # tagName \/ tags[i].isSelfClose
  THEN MatchingOpenFrom(tags, tagName, i - 1, depth)
  ELSE IF tags[i].isClose
  THEN MatchingOpenFrom(tags, tagName, i - 1, depth + 1)
  ELSE IF depth - 1 = 0
  THEN <<OffsetRange(tags[i].index + 1, tags[i].index + 1 + Len(tags[i].name))>>
  ELSE MatchingOpenFrom(tags, tagName, i - 1, depth - 1)

findMatchingOpenTag(text, closeTagOffset, tagName) ==
  LET Walk(tags) == MatchingOpenFrom(tags, tagName, Len(tags), 1)
  IN Walk(TagsBefore(text, closeTagOffset, 0))

\* the backward scan for the tag at the cursor: the offset of the nearest "<" at
\* or before the offset, -1 if there is none or a ">" comes first
BracketPos(text, offset) ==
  LET Stops(i) == At(text, i) = "<" \/ (At(text, i) = ">" /\ i < offset)
      At_(i) == IF At(text, i) = "<" THEN i ELSE -1
  IN IF \E i \in 0..offset : Stops(i)
     THEN At_(CHOOSE i \in 0..offset : Stops(i) /\ \A j \in (i + 1)..offset : ~Stops(j))
     ELSE -1

\* getLinkedEditingRanges(doc, position): <<>> for null, else <<the ranges>>
getLinkedEditingRanges(text, offset) ==
  LET Linked(first, second) == IF first = <<>> \/ second = <<>> THEN <<>>
                               ELSE << <<first[1], second[1]>> >>
      OnName(bracketPos, isCloseTag, nameStart, nameEnd) ==
        LET cursorRange == <<OffsetRange(nameStart, nameEnd)>>
            tagName == Substring(text, nameStart, nameEnd)
            Open(tagEnd) ==
              IF tagEnd # -1 /\ At(text, tagEnd - 1) = "/" THEN <<>>
              ELSE Linked(cursorRange, findMatchingCloseTag(text, bracketPos, tagName))
        IN IF offset < nameStart \/ offset > nameEnd THEN <<>>
           ELSE IF isCloseTag
           THEN Linked(findMatchingOpenTag(text, bracketPos, tagName), cursorRange)
           ELSE Open(IndexOf(text, <<">">>, bracketPos))
      Named(bracketPos, isCloseTag, nameOffset) ==
        IF ~IsNameStartChar(At(text, nameOffset)) THEN <<>>
        ELSE OnName(bracketPos, isCloseTag, nameOffset, Span("name", text, nameOffset + 1))
      Bracket(bracketPos) ==
        IF bracketPos = -1 THEN <<>>
        ELSE Named(bracketPos, At(text, bracketPos + 1) = "/",
                   bracketPos + (IF At(text, bracketPos + 1) = "/" THEN 2 ELSE 1))
  IN Bracket(BracketPos(text, offset))

-----------------------------------------------------------------------------
(* Editor commands (extension.ts): buildElementTree, findNodeAtOffset *)

TagInfo(index, end, name, isClose, isSelfClose) ==
  [index |-> index, end |-> end, name |-> name, isClose |-> isClose,
   isSelfClose |-> isSelfClose]

\* the while loop that collects the tags, tagRegex.lastIndex being from; the
\* pattern is that of buildElementStack with the name captured as m[2]
RECURSIVE CollectTags(_, _)
CollectTags(text, from) ==
  LET Matched(index, m) ==
        (IF At(text, index + 1) \in {"?", "!"} THEN <<>>
         ELSE << TagInfo(index, m.gt + 1, Substring(text, m.nameStart, m.nameEnd),
                         At(text, index + 1) = "/", At(text, m.gt - 1) = "/") >>)
        \o CollectTags(text, m.gt + 1)
      Found(index) == Matched(index, StackTagRegexAt(text, index))
      \* a match starts with "<"
      MatchAt(j) == text[j + 1] = "<" /\ StackTagRegexAt(text, j).ok
  IN IF \E j \in from..(Len(text) - 1) : MatchAt(j)
     THEN Found(CHOOSE j \in from..(Len(text) - 1) :
                  MatchAt(j) /\ \A k \in from..(j - 1) : ~MatchAt(k))
     ELSE <<>>

\* an ElementNode; parent is the index of the parent node in the node list, 0 for
\* null; a node's children are the nodes naming it as parent, in list order
ElementNode(name, start, openEnd, closeEnd, parent) ==
  [name |-> name, start |-> start, openEnd |-> openEnd, closeEnd |-> closeEnd,
   parent |-> parent]

\* stack.splice(i, 1), i counted from 1
RemoveAt(stack, i) == SubSeq(stack, 1, i - 1) \o SubSeq(stack, i + 1, Len(stack))

\* TreeStep with the closing tag handled as buildElementStack handles it:
\* stack.splice(i) drops the matched frame and every frame above it
TreeStep_SpliceAbove(tree, tag) ==
  LET Node(closeEnd, parent) ==
        ElementNode(tag.name, tag.index, tag.end, closeEnd, parent)
      Top(stack) == IF Len(stack) > 0 THEN stack[Len(stack)] ELSE 0
      Close(i) ==
        [nodes |-> [tree.nodes EXCEPT ![tree.stack[i]].closeEnd = tag.end],
         stack |-> SubSeq(tree.stack, 1, i - 1)]
  IN IF tag.isSelfClose
     THEN [tree EXCEPT !.nodes = Append(@, Node(tag.end, Top(tree.stack)))]
     ELSE IF ~tag.isClose
     THEN [nodes |-> Append(tree.nodes, Node(-1, Top(tree.stack))),
           stack |-> Append(tree.stack, Len(tree.nodes) + 1)]
     ELSE IF \E i \in 1..Len(tree.stack) : tree.nodes[tree.stack[i]].name = tag.name
     THEN Close(CHOOSE i \in 1..Len(tree.stack) :
                  /\ tree.nodes[tree.stack[i]].name = tag.name
                  /\ \A j \in (i + 1)..Len(tree.stack) :
                       tree.nodes[tree.stack[j]].name # tag.name)
     ELSE tree

\* one round of the for loop over the tags: tree is [nodes, stack], the stack
\* holding node indices
TreeStep(tree, tag) ==
  LET Node(closeEnd, parent) ==
        ElementNode(tag.name, tag.index, tag.end, closeEnd, parent)
      Top(stack) == IF Len(stack) > 0 THEN stack[Len(stack)] ELSE 0
      Close(i) ==
        [nodes |-> [tree.nodes EXCEPT ![tree.stack[i]].closeEnd = tag.end],
         stack |-> RemoveAt(tree.stack, i)]
  IN IF tag.isSelfClose
     THEN [tree EXCEPT !.nodes = Append(@, Node(tag.end, Top(tree.stack)))]
     ELSE IF ~tag.isClose
     THEN [nodes |-> Append(tree.nodes, Node(-1, Top(tree.stack))),
           stack |-> Append(tree.stack, Len(tree.nodes) + 1)]
     ELSE IF \E i \in 1..Len(tree.stack) : tree.nodes[tree.stack[i]].name = tag.name
     THEN Close(CHOOSE i \in 1..Len(tree.stack) :
                  /\ tree.nodes[tree.stack[i]].name = tag.name
                  /\ \A j \in (i + 1)..Len(tree.stack) :
                       tree.nodes[tree.stack[j]].name # tag.name)
     ELSE tree

RECURSIVE TreeOfTags(_, _)
TreeOfTags(tree, tags) ==
  IF tags = <<>> THEN tree ELSE TreeOfTags(TreeStep(tree, Head(tags)), Tail(tags))

\* buildElementTree(text): the nodes in document order, and the frames left open
buildElementTree(text) ==
  TreeOfTags([nodes |-> <<>>, stack |-> <<>>], CollectTags(text, 0))

\* node.children, as node indices
Children(nodes, p) ==
  SelectSeq([k \in 1..Len(nodes) |-> k], LAMBDA k : nodes[k].parent = p)

\* findNodeAtOffset(list, offset), list being node indices: 0 for null
RECURSIVE findNodeAtOffset(_, _, _)
findNodeAtOffset(nodes, list, offset) ==
  LET Inner(node, child) == IF child # 0 THEN child ELSE node
      Hit(node) == Inner(node, findNodeAtOffset(nodes, Children(nodes, node), offset))
  IN IF \E k \in 1..Len(list) :
          offset >= nodes[list[k]].start /\ offset <= nodes[list[k]].closeEnd
     THEN Hit(list[CHOOSE k \in 1..Len(list) :
                /\ offset >= nodes[list[k]].start /\ offset <= nodes[list[k]].closeEnd
                /\ \A j \in 1..(k - 1) :
                     ~(offset >= nodes[list[j]].start /\ offset <= nodes[list[j]].closeEnd)])
     ELSE 0

\* a vscode.Selection as offsets: start and end are the smaller and the larger
Selection(anchor, active) == [anchor |-> anchor, active |-> active]
SelStart(sel) == Min(sel.anchor, sel.active)
SelEnd(sel) == Max(sel.anchor, sel.active)

\* jumpTo(editor, doc, offset)
jumpTo(offset) == Selection(offset, offset)

\* an ElementRange of selectElement
ElementRange(name, start, end, openEnd, closeStart) ==
  [name |-> name, start |-> start, end |-> end, openEnd |-> openEnd,
   closeStart |-> closeStart]

\* one round of selectElement's for loop over the tags: r is [elements, stack]
RangeStep(r, tag) ==
  LET Close(i) ==
        [elements |-> Append(r.elements,
                        ElementRange(tag.name, r.stack[i].index, tag.end,
                                     r.stack[i].tagEnd, tag.index)),
         stack |-> RemoveAt(r.stack, i)]
  IN IF tag.isSelfClose
     THEN [r EXCEPT !.elements =
             Append(@, ElementRange(tag.name, tag.index, tag.end, tag.end, tag.index))]
     ELSE IF ~tag.isClose
     THEN [r EXCEPT !.stack =
             Append(@, [name |-> tag.name, index |-> tag.index, tagEnd |-> tag.end])]
     ELSE IF \E i \in 1..Len(r.stack) : r.stack[i].name = tag.name
     THEN Close(CHOOSE i \in 1..Len(r.stack) :
                  /\ r.stack[i].name = tag.name
                  /\ \A j \in (i + 1)..Len(r.stack) : r.stack[j].name # tag.name)
     ELSE r

RECURSIVE ElementRanges(_, _)
ElementRanges(r, tags) ==
  IF tags = <<>> THEN r.elements
  ELSE ElementRanges(RangeStep(r, Head(tags)), Tail(tags))

\* selectElement: the selection it leaves.  elements.sort by size is stable, so
\* the loop over the sorted list meets the elements by size and, among elements
\* of one size, in the order they were pushed.
selectElement(text, sel) ==
  LET offset == sel.active
      Pick(elements) ==
        LET Size(k) == elements[k].end - elements[k].start
            Candidate(k) ==
              /\ elements[k].start <= offset /\ elements[k].end >= offset
              /\ ~(SelStart(sel) = elements[k].start /\ SelEnd(sel) = elements[k].end)
            First(k) == Selection(elements[k].start, elements[k].end)
        IN IF \E k \in 1..Len(elements) : Candidate(k)
           THEN First(CHOOSE k \in 1..Len(elements) :
                        /\ Candidate(k)
                        /\ \A j \in 1..Len(elements) :
                             (Candidate(j) /\ j # k) =>
                               (Size(k) < Size(j) \/ (Size(k) = Size(j) /\ k < j)))
           ELSE sel
  IN Pick(ElementRanges([elements |-> <<>>, stack |-> <<>>], CollectTags(text, 0)))

\* the roots of a tree, as node indices
Roots(nodes) == Children(nodes, 0)

\* getNextSibling(node) / getPrevSibling(node): 0 for null
getNextSibling(nodes, node) ==
  LET Next(siblings) ==
        IF \E i \in 1..(Len(siblings) - 1) : siblings[i] = node
        THEN siblings[(CHOOSE i \in 1..(Len(siblings) - 1) : siblings[i] = node) + 1]
        ELSE 0
  IN IF nodes[node].parent = 0 THEN 0 ELSE Next(Children(nodes, nodes[node].parent))

getPrevSibling(nodes, node) ==
  LET Prev(siblings) ==
        IF \E i \in 2..Len(siblings) : siblings[i] = node
        THEN siblings[(CHOOSE i \in 2..Len(siblings) : siblings[i] = node) - 1]
        ELSE 0
  IN IF nodes[node].parent = 0 THEN 0 ELSE Prev(Children(nodes, nodes[node].parent))

\* goToParent: the selection it leaves
goToParent(text, sel) ==
  LET Go(nodes, current) ==
        IF current = 0 THEN sel
        ELSE IF nodes[current].parent # 0
        THEN jumpTo(nodes[nodes[current].parent].start)
        ELSE jumpTo(nodes[current].start)
      In(nodes) == Go(nodes, findNodeAtOffset(nodes, Roots(nodes), sel.active))
  IN In(buildElementTree(text).nodes)

goToNextSibling(text, sel) ==
  LET To(nodes, next) == IF next # 0 THEN jumpTo(nodes[next].start) ELSE sel
      Go(nodes, current) ==
        IF current = 0 THEN sel ELSE To(nodes, getNextSibling(nodes, current))
      In(nodes) == Go(nodes, findNodeAtOffset(nodes, Roots(nodes), sel.active))
  IN In(buildElementTree(text).nodes)

goToPrevSibling(text, sel) ==
  LET To(nodes, prev) == IF prev # 0 THEN jumpTo(nodes[prev].start) ELSE sel
      Go(nodes, current) ==
        IF current = 0 THEN sel ELSE To(nodes, getPrevSibling(nodes, current))
      In(nodes) == Go(nodes, findNodeAtOffset(nodes, Roots(nodes), sel.active))
  IN In(buildElementTree(text).nodes)

\* step 3 of goToFirstChild: the nearest ancestor that has a next sibling
RECURSIVE AncestorSibling(_, _)
AncestorSibling(nodes, ancestor) ==
  IF ancestor = 0 THEN 0
  ELSE IF getNextSibling(nodes, ancestor) # 0 THEN getNextSibling(nodes, ancestor)
  ELSE AncestorSibling(nodes, nodes[ancestor].parent)

\* goToFirstChild: the selection it leaves
goToFirstChild(text, sel) ==
  LET To(nodes, target) == IF target # 0 THEN jumpTo(nodes[target].start) ELSE sel
      Go(nodes, current) ==
        IF current = 0 THEN sel
        ELSE IF Len(Children(nodes, current)) > 0
        THEN jumpTo(nodes[Children(nodes, current)[1]].start)
        ELSE IF getNextSibling(nodes, current) # 0
        THEN jumpTo(nodes[getNextSibling(nodes, current)].start)
        ELSE To(nodes, AncestorSibling(nodes, nodes[current].parent))
      In(nodes) == Go(nodes, findNodeAtOffset(nodes, Roots(nodes), sel.active))
  IN In(buildElementTree(text).nodes)

\* the offset at which the line holding offset starts
LineStart(text, offset) ==
  IF \E i \in 0..(offset - 1) : text[i + 1] = "\n"
  THEN (CHOOSE i \in 0..(offset - 1) :
          text[i + 1] = "\n" /\ \A j \in (i + 1)..(offset - 1) : text[j + 1] # "\n") + 1
  ELSE 0

\* the offset behind the last character of the line holding offset
LineEnd(text, offset) ==
  IF IndexOf(text, <<"\n">>, offset) = -1 THEN Len(text) ELSE IndexOf(text, <<"\n">>, offset)

\* line.text.match(/^(\s*)/)[1] for the line that starts at lineStart
LeadingWhitespace(text, lineStart) ==
  LET End(lineEnd) ==
        CHOOSE j \in lineStart..lineEnd :
          /\ \A k \in lineStart..(j - 1) : isWhitespace(text[k + 1])
          /\ j < lineEnd => ~isWhitespace(text[j + 1])
  IN Substring(text, lineStart, End(LineEnd(text, lineStart)))

\* an automatic insertion asked of the editor: text at offset pos, the caret
\* left at offset caret of the inserted text, and (for the edit of
\* autoCloseOnSlash) the indentation [start, length, by] to replace
Insertion(pos, text, caret, reindent) ==
  [pos |-> pos, text |-> text, caret |-> caret, reindent |-> reindent, applied |-> FALSE]

\* the while loop of autoCloseOnSlash over textBefore, tagRegex.lastIndex being
\* from: the stack of [name, offset]
RECURSIVE AutoCloseStackFrom(_, _, _)
AutoCloseStackFrom(textBefore, from, stack) ==
  LET Names(st) == [i \in 1..Len(st) |-> st[i].name]
      Closing(idx) == IF idx >= 0 THEN SubSeq(stack, 1, idx) ELSE stack
      Tag(index, m) ==
        AutoCloseStackFrom(textBefore, m.gt + 1,
          IF At(textBefore, index + 1) = "/"
          THEN Closing(LastIndexOf(Names(stack),
                                   Substring(textBefore, m.nameStart, m.nameEnd)))
          ELSE IF At(textBefore, m.gt - 1) = "/"
          THEN stack
          ELSE Append(stack, [name |-> Substring(textBefore, m.nameStart, m.nameEnd),
                              offset |-> index]))
      Found(index) == Tag(index, StackTagRegexAt(textBefore, index))
      MatchAt(j) == textBefore[j + 1] = "<" /\ StackTagRegexAt(textBefore, j).ok
  IN IF \E j \in from..(Len(textBefore) - 1) : MatchAt(j)
     THEN Found(CHOOSE j \in from..(Len(textBefore) - 1) :
                  MatchAt(j) /\ \A k \in from..(j - 1) : ~MatchAt(k))
     ELSE stack

\* autoCloseOnSlash(doc, change): <<>> when it returns early, else <<the
\* insertion it asks for>>; start is doc.offsetAt(change.range.start)
autoCloseOnSlash(text, start) ==
  LET offset == start + 1
      lineStart == LineStart(text, offset)
      \* /^\s*<\/$/ on the text of the line before the position
      isAtLineStart ==
        /\ offset - lineStart >= 2
        /\ \A k \in lineStart..(offset - 3) : isWhitespace(text[k + 1])
      Ask(entry, openIndent, currentIndent) ==
        IF isAtLineStart
        THEN <<Insertion(offset, entry.name \o <<">">>, Len(entry.name) + 1,
                         IF currentIndent # openIndent
                         THEN <<[start |-> lineStart, length |-> Len(currentIndent),
                                 by |-> openIndent]>>
                         ELSE <<>>)>>
        ELSE <<Insertion(offset, entry.name \o <<">">>, Len(entry.name) + 1, <<>>)>>
      Close(stack) ==
        IF Len(stack) = 0 THEN <<>>
        ELSE Ask(stack[Len(stack)],
                 LeadingWhitespace(text, LineStart(text, stack[Len(stack)].offset)),
                 LeadingWhitespace(text, lineStart))
  IN IF offset < 2 THEN <<>>
     ELSE IF Substring(text, offset - 2, offset) # <<"<", "/">> THEN <<>>
     ELSE IF IsNameStartChar(At(text, offset)) THEN <<>>
     ELSE Close(AutoCloseStackFrom(Substring(text, 0, offset - 2), 0, <<>>))

\* lineText.match(/<([a-zA-Z_][\w:.-]*)[^<]*>$/) for a lineText that ends with
\* ">": the offset in lineText of the last "<" if a name follows it, else -1
TagMatch(lineText) ==
  LET Last(p) == IF p # -1 /\ IsNameStartChar(At(lineText, p + 1)) THEN p ELSE -1
  IN Last(IF \E p \in 0..(Len(lineText) - 1) : lineText[p + 1] = "<"
          THEN CHOOSE p \in 0..(Len(lineText) - 1) :
                 /\ lineText[p + 1] = "<"
                 /\ \A q \in (p + 1)..(Len(lineText) - 1) : lineText[q + 1] # "<"
          ELSE -1)

\* onDocumentChange(event) once isInserting has been found false: <<>> when it
\* returns without an edit, else <<the insertion it asks for>>.  The change
\* replaced nothing and put changeText at offset start; text is the document
\* after the change.
onDocumentChange(text, start, changeText) ==
  LET offset == start + Len(changeText)
      lineText == Substring(text, LineStart(text, offset), offset)
      Tagged(tagName) ==
        IF Substring(text, offset, Min(offset + Len(tagName) + 3, LineEnd(text, offset)))
             = <<"<", "/">> \o tagName \o <<">">>
        THEN <<>>
        ELSE <<Insertion(offset, <<"<", "/">> \o tagName \o <<">">>, 0, <<>>)>>
      Matched(p) ==
        IF p = -1 THEN <<>>
        ELSE Tagged(Substring(lineText, p + 1, Span("name", lineText, p + 1)))
  IN IF changeText = <<"/">> THEN autoCloseOnSlash(text, start)
     ELSE IF ~EndsWith(changeText, <<">">>) THEN <<>>
     ELSE IF EndsWith(lineText, <<"/", ">">>) THEN <<>>
     ELSE IF EndsWith(lineText, <<"-", "-", ">">>) THEN <<>>
     ELSE IF EndsWith(lineText, <<"?", ">">>) THEN <<>>
     ELSE Matched(TagMatch(lineText))

-----------------------------------------------------------------------------
(* Documents under test: a document is typed as a list of tokens (tags with
   attributes, comment delimiters, white space); the program only ever sees
   the rendered text. *)

Tok(k, name, attrs) == [k |-> k, name |-> name, attrs |-> attrs]
Attr(name, value) == [name |-> name, value |-> value]

RECURSIVE RenderAttrs(_)
RenderAttrs(attrs) ==
  IF attrs = <<>> THEN <<>>
  ELSE <<" ">> \o Head(attrs).name \o <<"=", "\"">> \o Head(attrs).value \o <<"\"">>
       \o RenderAttrs(Tail(attrs))

Render(tok) ==
  CASE tok.k = "open"   -> <<"<">> \o tok.name \o RenderAttrs(tok.attrs) \o <<">">>
    [] tok.k = "self"   -> <<"<">> \o tok.name \o RenderAttrs(tok.attrs) \o <<"/", ">">>
    [] tok.k = "close"  -> <<"<", "/">> \o tok.name \o <<">">>
    [] tok.k = "copen"  -> <<"<", "!", "-", "-">>
    [] tok.k = "cclose" -> <<"-", "-", ">">>
    [] tok.k = "comment" -> <<"<", "!", "-", "-">> \o tok.name \o <<"-", "-", ">">>
    [] tok.k = "pi"     -> <<"<", "?">> \o tok.name \o <<"?", ">">>
    [] tok.k = "cdata"  -> <<"<","!","[","C","D","A","T","A","[">> \o tok.name \o <<"]","]",">">>
    [] OTHER            -> tok.name     \* "text": the characters themselves

RECURSIVE RenderAll(_)
RenderAll(ts) == IF ts = <<>> THEN <<>> ELSE Render(Head(ts)) \o RenderAll(Tail(ts))

\* all token lists of length 0..n over a vocabulary
TokenLists(vocab, n) == UNION {[1..len -> vocab] : len \in 0..n}

N_L == <<"L">>
N_S == <<"S">>
N_U == <<"U">>
A_n == <<"n">>
A_m == <<"m">>
A_o == <<"o">>
V_x == <<"x">>

\* a content model declaring L (children L, S, Value, DefineColor) and S (required
\* attributes n and m, optional o); Value, DefineColor and U are not declared
ModelLS ==
  [namespace |-> <<>>,
   elements |->
     << [key |-> N_L,
         val |-> ElementDeclaration(N_L, <<>>, <<N_L, N_S, N_Value, N_DefineColor>>, FALSE)],
        [key |-> N_S,
         val |-> ElementDeclaration(N_S,
                   << AttributeDeclaration(A_n, TRUE, <<>>, <<>>),
                      AttributeDeclaration(A_m, TRUE, <<>>, <<>>),
                      AttributeDeclaration(A_o, FALSE, <<>>, <<>>) >>,
                   <<>>, FALSE)] >>]

\* the same, with Value (optional select, any declared child) and DefineColor declared
ModelAll ==
  [namespace |-> <<>>,
   elements |->
     ModelLS.elements \o
     << [key |-> N_Value,
         val |-> ElementDeclaration(N_Value,
                   << AttributeDeclaration(A_select, FALSE, <<>>, <<>>) >>,
                   <<N_L, N_S, N_Value>>, TRUE)],
        [key |-> N_DefineColor,
         val |-> ElementDeclaration(N_DefineColor,
                   << AttributeDeclaration(A_model, FALSE, <<>>, <<>>),
                      AttributeDeclaration(A_value, FALSE, <<>>, <<>>) >>,
                   <<>>, FALSE)] >>]

-----------------------------------------------------------------------------
(* Completion provider (completionProvider.ts) and the cross-reference
   mappings (crossReferenceProvider.ts) *)

A_name == <<"n","a","m","e">>
A_color == <<"c","o","l","o","r">>

\* CrossReferenceMapping; extraValues is <<>> when undefined
CrossReferenceMapping(sourceElement, sourceAttribute, targetElement, targetAttribute,
                      extraValues) ==
  [sourceElement |-> sourceElement, sourceAttribute |-> sourceAttribute,
   targetElement |-> targetElement, targetAttribute |-> targetAttribute,
   extraValues |-> extraValues]

mappings ==
  << CrossReferenceMapping(<<"D","e","f","i","n","e","T","e","x","t","f","o","r","m","a","t">>,
       A_name, <<"P","a","r","a","g","r","a","p","h">>,
       <<"t","e","x","t","f","o","r","m","a","t">>,
       <<<<"t","e","x","t">>, <<"c","e","n","t","e","r","e","d">>, <<"l","e","f","t">>, <<"r","i","g","h","t">>>>),
     CrossReferenceMapping(<<"D","e","f","i","n","e","T","e","x","t","f","o","r","m","a","t">>,
       A_name, <<"T","e","x","t","b","l","o","c","k">>,
       <<"t","e","x","t","f","o","r","m","a","t">>,
       <<<<"t","e","x","t">>, <<"c","e","n","t","e","r","e","d">>, <<"l","e","f","t">>, <<"r","i","g","h","t">>>>),
     CrossReferenceMapping(N_DefineColor,
       A_name, <<"*">>,
       A_color,
       <<>>),
     CrossReferenceMapping(N_DefineColor,
       A_name, <<"*">>,
       <<"b","a","c","k","g","r","o","u","n","d","-","c","o","l","o","r">>,
       <<>>),
     CrossReferenceMapping(<<"D","e","f","i","n","e","F","o","n","t","f","a","m","i","l","y">>,
       A_name, <<"*">>,
       <<"f","o","n","t","f","a","m","i","l","y">>,
       <<<<"t","e","x","t">>>>),
     CrossReferenceMapping(<<"L","o","a","d","F","o","n","t","f","i","l","e">>,
       A_name, <<"B","o","l","d">>,
       <<"f","o","n","t","f","a","c","e">>,
       <<>>),
     CrossReferenceMapping(<<"L","o","a","d","F","o","n","t","f","i","l","e">>,
       A_name, <<"R","e","g","u","l","a","r">>,
       <<"f","o","n","t","f","a","c","e">>,
       <<>>),
     CrossReferenceMapping(<<"L","o","a","d","F","o","n","t","f","i","l","e">>,
       A_name, <<"I","t","a","l","i","c">>,
       <<"f","o","n","t","f","a","c","e">>,
       <<>>),
     CrossReferenceMapping(<<"L","o","a","d","F","o","n","t","f","i","l","e">>,
       A_name, <<"B","o","l","d","I","t","a","l","i","c">>,
       <<"f","o","n","t","f","a","c","e">>,
       <<>>) >>

\* hasCrossReferenceTargets(currentElement, attributeName)
hasCrossReferenceTargets(currentElement, attributeName) ==
  \E i \in 1..Len(mappings) :
    /\ mappings[i].targetElement \in {<<"*">>, currentElement}
    /\ mappings[i].targetAttribute = attributeName

\* a CompletionItem: its label, its kind, and whether its detail is "(required)"
CompletionItem(label, kind, required) == [label |-> label, kind |-> kind, required |-> required]

\* [...m.keys()]
MapKeys(m) == [k \in 1..Len(m) |-> m[k].key]

\* getElementCompletions(context, model)
getElementCompletions(context, model) ==
  LET parentDecl == ElementsGet(model, context.currentElement)
      candidates == IF parentDecl.known THEN parentDecl.decl.allowedChildren
                    ELSE MapKeys(model.elements)
  IN [i \in 1..Len(candidates) |-> CompletionItem(candidates[i], "Class", FALSE)]
     \o << CompletionItem(<<"!","[","C","D","A","T","A","[">>, "Class", FALSE),
           CompletionItem(<<"!","-","-"," ","-","-",">">>, "Class", FALSE) >>

\* the rule defineColorRules[model] yields when it is truthy and has lists
\* (a key found on Object.prototype yields a value without them: the Sets built
\* from its undefined .forbidden and .required are empty)
ColorRuleOf(existingAttributes) ==
  LET m == IF MapHas(existingAttributes, A_model)
           THEN MapGet(existingAttributes, A_model) ELSE <<>>
  IN IF m \in DOMAIN defineColorRules
     THEN defineColorRules[m]
     ELSE [required |-> <<>>, forbidden |-> <<>>]

\* filterAttributes(elementName, existingAttributes, allAttributes)
filterAttributes(elementName, existingAttributes, allAttributes) ==
  LET Allowed(attr) ==
        \A j \in 1..Len(ColorRuleOf(existingAttributes).forbidden) :
          ColorRuleOf(existingAttributes).forbidden[j] # attr.name
  IN IF elementName # N_DefineColor THEN allAttributes
     ELSE SelectSeq(allAttributes, Allowed)

\* getRequiredAttributes(elementName, existingAttributes)
getRequiredAttributes(elementName, existingAttributes) ==
  IF elementName # N_DefineColor THEN <<>>
  ELSE ColorRuleOf(existingAttributes).required

\* getAttributeCompletions(context, model)
getAttributeCompletions(context, model) ==
  LET decl == ElementsGet(model, context.currentElement)
      existingMap == IF context.existingAttributes = <<>> THEN <<>>
                     ELSE context.existingAttributes[1]
      customRequired == getRequiredAttributes(context.currentElement, existingMap)
      Missing(attr) == ~MapHas(existingMap, attr.name)
      Item(attr) ==
        CompletionItem(attr.name, "Property",
                       attr.required \/ \E j \in 1..Len(customRequired) :
                                          customRequired[j] = attr.name)
      Items(attrs) == [i \in 1..Len(attrs) |-> Item(attrs[i])]
  IN IF ~decl.known THEN <<>>
     ELSE Items(SelectSeq(filterAttributes(context.currentElement, existingMap,
                                           decl.decl.attributes),
                          Missing))

\* getAttributeValueCompletions(context, model)
getAttributeValueCompletions(context, model) ==
  LET decl == ElementsGet(model, context.currentElement)
      Named(attrs) == {i \in 1..Len(attrs) : attrs[i].name = context.attributeName[1]}
      Values(values) ==
        [i \in 1..Len(values) |-> CompletionItem(values[i].value, "EnumMember", FALSE)]
      Found(attrs, found) ==
        IF found = {} THEN <<>>
        ELSE Values(attrs[CHOOSE i \in found : \A j \in found : i <= j].values)
  IN IF context.attributeName = <<>> THEN <<>>
     ELSE IF ~decl.known THEN <<>>
     ELSE Found(decl.decl.attributes, Named(decl.decl.attributes))

\* getCompletions(context, model)
getCompletions(context, model) ==
  CASE context.type \in {"elementOpen", "content"} -> getElementCompletions(context, model)
    [] context.type = "attributeName" -> getAttributeCompletions(context, model)
    [] context.type = "attributeValue" -> getAttributeValueCompletions(context, model)
    [] OTHER -> <<>>

\* a content model with cross-referenced attributes: DefineColor introduces a
\* name, L takes a free-text color, S takes an enumerated n and a color
V_y == <<"y">>
V_brace == <<"{","x","}">>

ModelColor ==
  [namespace |-> <<>>,
   elements |->
     << [key |-> N_L,
         val |-> ElementDeclaration(N_L,
                   << AttributeDeclaration(A_color, FALSE, <<>>, <<>>) >>,
                   <<N_L, N_S, N_DefineColor>>, FALSE)],
        [key |-> N_S,
         val |-> ElementDeclaration(N_S,
                   << AttributeDeclaration(A_n, TRUE,
                        << [value |-> V_x, documentation |-> <<>>],
                           [value |-> V_y, documentation |-> <<>>] >>, <<>>),
                      AttributeDeclaration(A_color, FALSE, <<>>, <<>>) >>,
                   <<>>, FALSE)],
        [key |-> N_DefineColor,
         val |-> ElementDeclaration(N_DefineColor,
                   << AttributeDeclaration(A_name, TRUE, <<>>, <<>>),
                      AttributeDeclaration(A_model, FALSE, <<>>, <<>>),
                      AttributeDeclaration(A_value, FALSE, <<>>, <<>>) >>,
                   <<>>, FALSE)] >>]

\* a content model whose element S declares n (allowed x, y), m (allowed x,
\* pattern [0-9]+), o (allowed x, a pattern that does not compile) and p (no
\* allowed values, pattern [0-9]+)
A_p == <<"p">>
V_z == <<"z">>
V_1 == <<"1">>

ModelValues ==
  [namespace |-> <<>>,
   elements |->
     << [key |-> N_S,
         val |-> ElementDeclaration(N_S,
                   << AttributeDeclaration(A_n, FALSE,
                        << [value |-> V_x, documentation |-> <<>>],
                           [value |-> V_y, documentation |-> <<>>] >>, <<>>),
                      AttributeDeclaration(A_m, FALSE,
                        << [value |-> V_x, documentation |-> <<>>] >>, P_digits),
                      AttributeDeclaration(A_o, FALSE,
                        << [value |-> V_x, documentation |-> <<>>] >>, P_unbalanced),
                      AttributeDeclaration(A_p, FALSE, <<>>, P_digits) >>,
                   <<N_S>>, FALSE)] >>]

-----------------------------------------------------------------------------
(* State *)

VARIABLES
  toks,      \* the document as typed: its token list
  text,      \* the document text the program is given
  model,     \* the ContentModel the program is given ("LS", "All", "Color" or "Values")
  result,    \* what validateDocument returned
  pc,        \* "ready" before the operation has run, "done" after
  options,   \* the FormattingOptions of the formatting request
  edits,     \* the TextEdit[] formatDocument returned: the replacement texts
  formats,   \* how many formatting requests have been answered
  rngBlocks, \* the schema as typed: its define blocks, in source order
  rngInput,  \* the SAX events of the schema that parseRng has not handled yet
  rngState,  \* parseRng's ParseState
  rngModel,  \* <<>> until parseRng returns, then <<the ContentModel>>
  documents,      \* the open TextDocuments: a Map from uri to text
  typed,          \* the token list each open document was typed as
  globalSettings, \* the SpeedataSettings last pulled
  clientLanguage, \* the language the client sent with initialize
  schemaCache,    \* Map: schema path -> ContentModel
  catalogCache,   \* Map: catalog path -> parsed catalog
  files,          \* the file system: path -> file
  published,      \* per uri: <<>> or <<the diagnostics last sent>>
  resolved,       \* per uri: <<>> or <<the last schema resolution for the document>>
  compiled,       \* the schema paths the last handler passed to parseRng
  reply,          \* what the last handler returned to a request
  threw,          \* the last handler ended with an exception
  pendingPulls,   \* pullSettings calls awaiting the configuration
  initialized,    \* onInitialized has run
  events,         \* how many document, configuration and file events have happened
  caret,          \* the offset of the position a request names
  context,        \* <<>> until analyzeDocument returns, then <<the CursorContext>>
  linked,         \* the linked editing requests answered so far, with the replies
  selection,      \* the active editor's selection (anchor and active offsets)
  trail,          \* the current run of one editor command: the selections it left
  isInserting,    \* extension.ts: an automatic insertion is under way
  snippet,        \* <<>> or <<the insertion requested from the editor, not yet settled>>
  lastChange,     \* what onDocumentChange did with the last change event
  keystrokes,     \* how many characters the user has typed
  treeTags,       \* buildElementTree: the tags its for loop has not processed yet
  treeState,      \* buildElementTree: the nodes made so far and the stack of open nodes
  foundNode       \* <<>> or <<the offset findNodeAtOffset was given and the node it returned>>

docVars == <<toks, text, model, result, pc>>
fmtVars == <<options, edits, formats>>
rngVars == <<rngBlocks, rngInput, rngState, rngModel>>
srvVars == <<documents, typed, globalSettings, clientLanguage, schemaCache, catalogCache,
             files, published, resolved, compiled, reply, threw, pendingPulls,
             initialized, events>>
curVars == <<caret, context, linked>>
treVars == <<treeTags, treeState, foundNode>>
ediVars == <<selection, trail, isInserting, snippet, lastChange, keystrokes, treVars>>
vars == <<docVars, fmtVars, rngVars, srvVars, curVars, ediVars>>

NoResult == [diagnostics |-> <<>>, customCalls |-> <<>>, threw |-> FALSE]

\* the formatter before any formatting request
FormatterIdle ==
  /\ options = FormattingOptions(TRUE, 2)
  /\ edits = <<>>
  /\ formats = 0

Uri_a == <<"f","i","l","e",":","/","/","/","a">>
Uris == {Uri_a}
P_s == <<"/","s">>

\* the server before any event
NoReply == [op |-> "none", uri |-> <<>>, value |-> "none"]

ServerIdle ==
  /\ documents = <<>>
  /\ typed = [u \in Uris |-> <<>>]
  /\ globalSettings = SpeedataSettings(<<>>, L_auto)
  /\ clientLanguage = L_en
  /\ schemaCache = <<>>
  /\ catalogCache = <<>>
  /\ files = [p \in {P_s} |-> Absent]
  /\ published = [u \in Uris |-> <<>>]
  /\ resolved = [u \in Uris |-> <<>>]
  /\ compiled = <<>>
  /\ reply = NoReply
  /\ threw = FALSE
  /\ pendingPulls = 0
  /\ initialized = FALSE
  /\ events = 0

\* no position is being analysed
AnalyzerIdle ==
  /\ caret = 0
  /\ context = <<>>
  /\ linked = <<>>

NoChange == [text |-> <<>>, offset |-> 0, doc |-> <<>>, outcome |-> "none", asked |-> <<>>]

EmptyTree == [nodes |-> <<>>, stack |-> <<>>]

\* buildElementTree is not running
TreeIdle ==
  /\ treeTags = <<>>
  /\ treeState = EmptyTree
  /\ foundNode = <<>>

\* no editor command has run and nothing has been typed
CommandsIdle ==
  /\ selection = [anchor |-> 0, active |-> 0]
  /\ trail = <<>>
  /\ isInserting = FALSE
  /\ snippet = <<>>
  /\ lastChange = NoChange
  /\ keystrokes = 0

\* the extension has done nothing
EditorIdle ==
  /\ CommandsIdle
  /\ TreeIdle

\* no schema is being compiled
CompilerIdle ==
  /\ rngBlocks = <<>>
  /\ rngInput = <<>>
  /\ rngState = ParseStateInit
  /\ rngModel = <<>>

\* no document is being validated
ValidatorIdle ==
  /\ toks = <<>>
  /\ text = <<>>
  /\ model = "LS"
  /\ result = NoResult
  /\ pc = "ready"

\* the ContentModel the variable model names
ContentModelOf(m) ==
  CASE m = "LS" -> ModelLS
    [] m = "Color" -> ModelColor
    [] m = "Values" -> ModelValues
    [] OTHER -> ModelAll

-----------------------------------------------------------------------------
(* Specification SpecValidate: validateDocument on every document of up to
   MaxDocTokens tokens *)

MaxDocTokens == 4

ValidateVocab ==
  { Tok("open", N_L, <<>>), Tok("close", N_L, <<>>), Tok("self", N_L, <<>>),
    Tok("open", N_S, <<>>), Tok("close", N_S, <<>>),
    Tok("self", N_S, <<Attr(A_n, V_x), Attr(A_m, V_x)>>),
    Tok("open", N_Value, <<>>), Tok("close", N_Value, <<>>),
    Tok("open", N_Value, <<Attr(A_select, V_x)>>),
    Tok("self", N_DefineColor, <<>>),
    Tok("self", N_U, <<>>),
    Tok("copen", <<>>, <<>>), Tok("cclose", <<>>, <<>>) }

InitValidate ==
  /\ toks \in TokenLists(ValidateVocab, MaxDocTokens)
  /\ text = RenderAll(toks)
  /\ model \in {"LS", "All"}
  /\ result = NoResult
  /\ pc = "ready"
  /\ FormatterIdle
  /\ CompilerIdle
  /\ ServerIdle
  /\ AnalyzerIdle
  /\ EditorIdle

\* connection-independent part of validateOpenDocument: validateDocument(doc, model)
Validate ==
  /\ pc = "ready"
  /\ result' = validateDocument(text, ContentModelOf(model))
  /\ pc' = "done"
  /\ UNCHANGED <<toks, text, model, fmtVars, rngVars, srvVars, curVars, ediVars>>

SpecValidate == InitValidate /\ [][Validate]_vars

-----------------------------------------------------------------------------
(* Specification SpecRequired: validateDocument on documents of up to
   MaxReqTokens tags that carry every combination of required and optional
   attributes *)

MaxReqTokens == 3

RequiredVocab ==
  { Tok("open", N_S, <<>>), Tok("open", N_S, <<Attr(A_n, V_x)>>),
    Tok("self", N_S, <<>>),
    Tok("self", N_S, <<Attr(A_n, V_x), Attr(A_m, V_x)>>),
    Tok("self", N_S, <<Attr(A_m, V_x), Attr(A_o, V_x)>>),
    Tok("close", N_S, <<>>),
    Tok("open", N_Value, <<>>), Tok("close", N_Value, <<>>), Tok("self", N_Value, <<>>),
    Tok("self", N_U, <<>>),
    Tok("copen", <<>>, <<>>), Tok("cclose", <<>>, <<>>) }

InitRequired ==
  /\ toks \in TokenLists(RequiredVocab, MaxReqTokens)
  /\ text = RenderAll(toks)
  /\ model \in {"LS", "All"}
  /\ result = NoResult
  /\ pc = "ready"
  /\ FormatterIdle
  /\ CompilerIdle
  /\ ServerIdle
  /\ AnalyzerIdle
  /\ EditorIdle

SpecRequired == InitRequired /\ [][Validate]_vars

-----------------------------------------------------------------------------
(* Specification SpecFormat: formatting requests on every document of up to
   MaxFormatTokens tokens; the client applies the edits it is sent *)

MaxFormatTokens == 5
MaxFormats == 2

N_A == <<"A">>
N_B == <<"B">>

FormatVocab ==
  { Tok("open", N_A, <<>>), Tok("close", N_A, <<>>), Tok("self", N_B, <<>>),
    Tok("open", N_Value, <<>>), Tok("close", N_Value, <<>>),
    Tok("comment", <<"c">>, <<>>), Tok("pi", <<"p">>, <<>>),
    Tok("text", <<"\n", "\n">>, <<>>) }

InitFormat ==
  /\ toks \in TokenLists(FormatVocab, MaxFormatTokens)
  /\ text = RenderAll(toks)
  /\ model = "LS"
  /\ result = NoResult
  /\ pc = "ready"
  /\ options \in {FormattingOptions(TRUE, 2), FormattingOptions(FALSE, 4)}
  /\ edits = <<>>
  /\ formats = 0
  /\ CompilerIdle
  /\ ServerIdle
  /\ AnalyzerIdle
  /\ EditorIdle

\* onDocumentFormatting -> formatDocument(doc, options)
FormatDocument ==
  /\ pc = "ready"
  /\ formats < MaxFormats
  /\ LET formatted == formatXml(text, options)
     IN IF formatted.hang
        THEN pc' = "hung" /\ UNCHANGED <<edits, formats>>
        ELSE /\ edits' = IF formatted.text = text THEN <<>> ELSE <<formatted.text>>
             /\ formats' = formats + 1
             /\ pc' = "formatted"
  /\ UNCHANGED <<toks, text, model, result, options, rngVars, srvVars, curVars, ediVars>>

\* the client applies the TextEdit.replace over the whole document
ApplyEdits ==
  /\ pc = "formatted"
  /\ text' = IF edits = <<>> THEN text ELSE edits[1]
  /\ pc' = "ready"
  /\ UNCHANGED <<toks, model, result, options, edits, formats, rngVars, srvVars, curVars, ediVars>>

SpecFormat == InitFormat /\ [][FormatDocument \/ ApplyEdits]_vars

-----------------------------------------------------------------------------
(* Specification SpecRng: parseRng on every schema of up to MaxDefines define
   blocks; the SAX parser delivers the schema's events one at a time *)

MaxDefines == 3

D_X == <<"X">>
D_Y == <<"Y">>
Ordinals == <<"1", "2", "3", "4", "5">>

OpenTag(name, attrs) == [type |-> "opentag", name |-> name, attributes |-> attrs]
CloseTag(name) == [type |-> "closetag", name |-> name]
TextNode(t) == [type |-> "text", text |-> t]
NameAttr(name) == <<[key |-> "name", val |-> name]>>

\* <define name=".."><element name=".."><a:documentation> k </a:documentation>
\* <ref name="X"/></element></define>; a block may also hold no element
DefineEvents(block, k) ==
  LET documentation ==
        << OpenTag(<<"a", ":">> \o T_documentation, <<>>),
           TextNode(<<" ", Ordinals[k], " ">>),
           CloseTag(<<"a", ":">> \o T_documentation) >>
  IN <<OpenTag(T_define, NameAttr(block.name))>>
     \o (IF block.element = <<>> THEN documentation
         ELSE <<OpenTag(T_element, NameAttr(block.element))>> \o documentation
              \o <<OpenTag(T_ref, NameAttr(D_X)), CloseTag(T_ref), CloseTag(T_element)>>)
     \o <<CloseTag(T_define)>>

RECURSIVE DefinesEvents(_, _)
DefinesEvents(blocks, k) ==
  IF k > Len(blocks) THEN <<>>
  ELSE DefineEvents(blocks[k], k) \o DefinesEvents(blocks, k + 1)

\* <grammar ns=".."><start><ref name="X"/></start> define blocks </grammar>
SchemaEvents(blocks) ==
  << OpenTag(T_grammar, <<[key |-> "ns", val |-> <<"u">>]>>),
     OpenTag(T_start, <<>>), OpenTag(T_ref, NameAttr(D_X)), CloseTag(T_ref),
     CloseTag(T_start) >>
  \o DefinesEvents(blocks, 1) \o <<CloseTag(T_grammar)>>

SchemaBlocks ==
  [name : {D_X, D_Y}, element : {N_L, N_S, <<>>}]

InitRng ==
  /\ rngBlocks \in UNION {[1..n -> SchemaBlocks] : n \in 1..MaxDefines}
  /\ rngInput = SchemaEvents(rngBlocks)
  /\ rngState = ParseStateInit
  /\ rngModel = <<>>
  /\ ValidatorIdle
  /\ FormatterIdle
  /\ ServerIdle
  /\ AnalyzerIdle
  /\ EditorIdle

ParserOpenTag ==
  /\ rngInput # <<>> /\ Head(rngInput).type = "opentag"
  /\ rngState' = onopentag(rngState, Head(rngInput))
  /\ rngInput' = Tail(rngInput)
  /\ UNCHANGED <<rngBlocks, rngModel, docVars, fmtVars, srvVars, curVars, ediVars>>

ParserText ==
  /\ rngInput # <<>> /\ Head(rngInput).type = "text"
  /\ rngState' = ontext(rngState, Head(rngInput).text)
  /\ rngInput' = Tail(rngInput)
  /\ UNCHANGED <<rngBlocks, rngModel, docVars, fmtVars, srvVars, curVars, ediVars>>

ParserCloseTag ==
  /\ rngInput # <<>> /\ Head(rngInput).type = "closetag"
  /\ rngState' = onclosetag(rngState, Head(rngInput).name)
  /\ rngInput' = Tail(rngInput)
  /\ UNCHANGED <<rngBlocks, rngModel, docVars, fmtVars, srvVars, curVars, ediVars>>

\* parser.write(content).close() has returned: return buildContentModel(state)
ParserReturn ==
  /\ rngInput = <<>> /\ rngModel = <<>>
  /\ rngModel' = <<buildContentModel(rngState)>>
  /\ UNCHANGED <<rngBlocks, rngInput, rngState, docVars, fmtVars, srvVars, curVars, ediVars>>

SpecRng ==
  InitRng /\ [][ParserOpenTag \/ ParserText \/ ParserCloseTag \/ ParserReturn]_vars

-----------------------------------------------------------------------------
(* Specification SpecOptional: parseRng on every schema with one define block
   whose element holds a well-nested list of up to MaxConstructs opening and
   closing optional, zeroOrMore and oneOrMore tags and attribute constructs *)

MaxConstructs == 6

OpenConstruct(tag) == [kind |-> "open", tag |-> tag, name |-> <<>>]
CloseConstruct(tag) == [kind |-> "close", tag |-> tag, name |-> <<>>]
AttributeConstruct(name) == [kind |-> "attribute", tag |-> T_attribute, name |-> name]

ConstructVocab ==
  {OpenConstruct(t) : t \in {T_optional, T_zeroOrMore, T_oneOrMore}}
  \cup {CloseConstruct(t) : t \in {T_optional, T_zeroOrMore, T_oneOrMore}}
  \cup {AttributeConstruct(A_n), AttributeConstruct(A_m)}

\* every closing tag closes the nearest open tag, and none stays open
RECURSIVE WellNestedFrom(_, _, _)
WellNestedFrom(cs, k, open) ==
  IF k > Len(cs) THEN open = <<>>
  ELSE CASE cs[k].kind = "open" -> WellNestedFrom(cs, k + 1, Append(open, cs[k].tag))
         [] cs[k].kind = "close" ->
              /\ open # <<>>
              /\ open[Len(open)] = cs[k].tag
              /\ WellNestedFrom(cs, k + 1, SubSeq(open, 1, Len(open) - 1))
         [] OTHER -> WellNestedFrom(cs, k + 1, open)

ConstructEvents(c) ==
  CASE c.kind = "open" -> <<OpenTag(c.tag, <<>>)>>
    [] c.kind = "close" -> <<CloseTag(c.tag)>>
    [] OTHER -> <<OpenTag(T_attribute, NameAttr(c.name)), CloseTag(T_attribute)>>

RECURSIVE ConstructsEvents(_, _)
ConstructsEvents(cs, k) ==
  IF k > Len(cs) THEN <<>>
  ELSE ConstructEvents(cs[k]) \o ConstructsEvents(cs, k + 1)

\* <grammar><define name="X"><element name="L"> constructs </element></define></grammar>
OptionalSchemaEvents(cs) ==
  << OpenTag(T_grammar, <<>>), OpenTag(T_define, NameAttr(D_X)),
     OpenTag(T_element, NameAttr(N_L)), TextNode(<<" ">>) >>
  \o ConstructsEvents(cs, 1)
  \o <<CloseTag(T_element), CloseTag(T_define), CloseTag(T_grammar)>>

InitOptional ==
  /\ rngBlocks \in {cs \in TokenLists(ConstructVocab, MaxConstructs) : WellNestedFrom(cs, 1, <<>>)}
  /\ rngInput = OptionalSchemaEvents(rngBlocks)
  /\ rngState = ParseStateInit
  /\ rngModel = <<>>
  /\ ValidatorIdle
  /\ FormatterIdle
  /\ ServerIdle
  /\ AnalyzerIdle
  /\ EditorIdle

SpecOptional ==
  InitOptional /\ [][ParserOpenTag \/ ParserText \/ ParserCloseTag \/ ParserReturn]_vars

-----------------------------------------------------------------------------
(* Specification SpecServer: the language server handling document events,
   completion and hover requests, configuration changes and changes of the
   schema file on disk, up to MaxEvents events *)

MaxEvents == 2

P_t == <<"/","t">>
P_c == <<"/","c">>
H_s == <<"s">>
H_t == <<"t">>
NS_u == <<"u">>
A_xmlns == <<"x","m","l","n","s">>

\* the schemas on disk
SchemaA == SchemaEvents(<<[name |-> D_X, element |-> N_L]>>)
SchemaB == SchemaEvents(<<[name |-> D_X, element |-> N_S]>>)
SchemaT == SchemaEvents(<<[name |-> D_Y, element |-> N_L]>>)
SchemaEn == SchemaEvents(<<[name |-> D_X, element |-> N_L], [name |-> D_Y, element |-> N_S]>>)
SchemaDe == SchemaEvents(<<[name |-> D_X, element |-> N_S], [name |-> D_Y, element |-> N_L]>>)

\* <catalog><uri name="u" uri="t"/><system systemId="urn:speedata..." uri="t"/></catalog>
CatalogEntries ==
  << [tag |-> T_uri, key |-> "name", name |-> NS_u, uri |-> H_t],
     [tag |-> T_system, key |-> "systemId", name |-> NS_Publisher, uri |-> H_t] >>

CatalogEvents ==
  <<OpenTag(<<"c","a","t","a","l","o","g">>, <<>>)>>
  \o [k \in 1..Len(CatalogEntries) |->
        OpenTag(CatalogEntries[k].tag,
                << [key |-> CatalogEntries[k].key, val |-> CatalogEntries[k].name],
                   [key |-> "uri", val |-> CatalogEntries[k].uri] >>)]
  \o <<CloseTag(<<"c","a","t","a","l","o","g">>)>>

\* <?xml-model href="s"?>
XmlModelPI(href) ==
  Tok("pi", <<"x","m","l","-","m","o","d","e","l"," ","h","r","e","f","=","\"">>
            \o href \o <<"\"">>, <<>>)

\* the documents typed: an optional xml-model instruction, then the root tag
\* with or without a namespace declaration
ServerDocs ==
  { pi \o root :
      pi \in {<<>>, <<XmlModelPI(H_s)>>},
      root \in { <<Tok("open", N_L, <<>>)>>,
                 <<Tok("open", N_L, <<Attr(A_xmlns, NS_Publisher)>>)>>,
                 <<Tok("open", N_L, <<Attr(A_xmlns, NS_u)>>)>> } }

\* what connection.workspace.getConfiguration('speedata') may answer: <<>> is
\* null; an unset catalog or schemaLanguage is <<>>
Configurations ==
  {<<>>} \cup {<<SpeedataSettings(cat, lang)>> : cat \in {<<>>, P_c}, lang \in {<<>>, L_de}}

SchemaFileStates == {Absent, Unreadable, File(SchemaA), File(SchemaB)}

\* the caches and outputs the handlers work on, as one record
Caches ==
  [schemaCache |-> schemaCache, catalogCache |-> catalogCache, calls |-> <<>>,
   compiled |-> <<>>, published |-> published, resolved |-> resolved, threw |-> FALSE]

\* a handler has run: its effects on the caches and its outputs
Commit(c, answer) ==
  /\ schemaCache' = c.schemaCache
  /\ catalogCache' = c.catalogCache
  /\ compiled' = c.compiled
  /\ published' = c.published
  /\ resolved' = c.resolved
  /\ threw' = c.threw
  /\ reply' = answer

InitServer ==
  /\ documents = <<>>
  /\ typed = [u \in Uris |-> <<>>]
  /\ globalSettings = SpeedataSettings(<<>>, L_auto)
  /\ clientLanguage \in {L_en, L_de}
  /\ schemaCache = <<>>
  /\ catalogCache = <<>>
  /\ \E s \in {Absent, File(SchemaA)}, t \in {Absent, File(SchemaT)},
        cat \in {Absent, File(CatalogEvents)} :
       files = (P_s :> s) @@ (P_t :> t) @@ (P_c :> cat)
               @@ (BuiltinSchemaPath(F_layoutschema_en) :> File(SchemaEn))
               @@ (BuiltinSchemaPath(F_layoutschema_de) :> File(SchemaDe))
  /\ published = [u \in Uris |-> <<>>]
  /\ resolved = [u \in Uris |-> <<>>]
  /\ compiled = <<>>
  /\ reply = NoReply
  /\ threw = FALSE
  /\ pendingPulls = 0
  /\ initialized = FALSE
  /\ events = 0
  /\ ValidatorIdle
  /\ FormatterIdle
  /\ CompilerIdle
  /\ AnalyzerIdle
  /\ EditorIdle

\* documents.onDidChangeContent (a document is opened or edited)
DidChangeContent(u, ts) ==
  /\ events < MaxEvents
  /\ events' = events + 1
  /\ documents' = MapSet(documents, u, RenderAll(ts))
  /\ typed' = [typed EXCEPT ![u] = ts]
  /\ Commit(validateOpenDocument(Caches, files, globalSettings, clientLanguage,
                                 u, RenderAll(ts)), NoReply)
  /\ UNCHANGED <<globalSettings, clientLanguage, files, pendingPulls, initialized>>
  /\ UNCHANGED <<docVars, fmtVars, rngVars, curVars, ediVars>>

\* documents.onDidClose
DidClose(u) ==
  /\ events < MaxEvents
  /\ MapHas(documents, u)
  /\ events' = events + 1
  /\ documents' = MapDelete(documents, u)
  /\ typed' = [typed EXCEPT ![u] = <<>>]
  /\ Commit([Caches EXCEPT !.published[u] = << <<>> >>, !.resolved[u] = <<>>], NoReply)
  /\ UNCHANGED <<globalSettings, clientLanguage, files, pendingPulls, initialized>>
  /\ UNCHANGED <<docVars, fmtVars, rngVars, curVars, ediVars>>

\* connection.onCompletion
Completion(u) ==
  /\ LET Answered(r) == Commit(r.c, [op |-> "completion", uri |-> u, value |-> r.reply])
     IN Answered(Request(Caches, files, globalSettings, clientLanguage, documents, u))
  /\ UNCHANGED <<documents, typed, globalSettings, clientLanguage, files, pendingPulls,
                 initialized, events>>
  /\ UNCHANGED <<docVars, fmtVars, rngVars, curVars, ediVars>>

\* connection.onHover
Hover(u) ==
  /\ LET Answered(r) == Commit(r.c, [op |-> "hover", uri |-> u, value |-> r.reply])
     IN Answered(Request(Caches, files, globalSettings, clientLanguage, documents, u))
  /\ UNCHANGED <<documents, typed, globalSettings, clientLanguage, files, pendingPulls,
                 initialized, events>>
  /\ UNCHANGED <<docVars, fmtVars, rngVars, curVars, ediVars>>

\* connection.onInitialized, up to the await in pullSettings
Initialized ==
  /\ ~initialized
  /\ initialized' = TRUE
  /\ pendingPulls' = pendingPulls + 1
  /\ Commit(Caches, NoReply)
  /\ UNCHANGED <<documents, typed, globalSettings, clientLanguage, files, events>>
  /\ UNCHANGED <<docVars, fmtVars, rngVars, curVars, ediVars>>

\* connection.onDidChangeConfiguration, up to the await in pullSettings
DidChangeConfiguration ==
  /\ initialized
  /\ events < MaxEvents
  /\ events' = events + 1
  /\ pendingPulls' = pendingPulls + 1
  /\ Commit(Caches, NoReply)
  /\ UNCHANGED <<documents, typed, globalSettings, clientLanguage, files, initialized>>
  /\ UNCHANGED <<docVars, fmtVars, rngVars, curVars, ediVars>>

\* pullSettings after the await: the configuration has arrived
PullSettings(config) ==
  /\ pendingPulls > 0
  /\ pendingPulls' = pendingPulls - 1
  /\ LET prev == globalSettings
         next == IF config # <<>>
                 THEN SpeedataSettings(config[1].catalog,
                                       IF config[1].schemaLanguage # <<>>
                                       THEN config[1].schemaLanguage ELSE L_auto)
                 ELSE prev
         c == IF prev.schemaLanguage # next.schemaLanguage
              THEN [Caches EXCEPT !.schemaCache = <<>>] ELSE Caches
     IN /\ globalSettings' = next
        /\ Commit(ValidateAll(c, files, next, clientLanguage, documents, 1), NoReply)
  /\ UNCHANGED <<documents, typed, clientLanguage, files, initialized, events>>
  /\ UNCHANGED <<docVars, fmtVars, rngVars, curVars, ediVars>>

\* the schema file /s is written, removed or made unreadable
FileChange(f) ==
  /\ events < MaxEvents
  /\ f # files[P_s]
  /\ events' = events + 1
  /\ files' = [files EXCEPT ![P_s] = f]
  /\ Commit(Caches, NoReply)
  /\ UNCHANGED <<documents, typed, globalSettings, clientLanguage, pendingPulls, initialized>>
  /\ UNCHANGED <<docVars, fmtVars, rngVars, curVars, ediVars>>

NextServer ==
  \/ \E u \in Uris, ts \in ServerDocs : DidChangeContent(u, ts)
  \/ \E u \in Uris : DidClose(u)
  \/ \E u \in Uris : Completion(u)
  \/ \E u \in Uris : Hover(u)
  \/ Initialized
  \/ DidChangeConfiguration
  \/ \E config \in Configurations : PullSettings(config)
  \/ \E f \in SchemaFileStates : FileChange(f)

SpecServer == InitServer /\ [][NextServer]_vars

-----------------------------------------------------------------------------
(* Specification SpecPull: the language server with up to two documents open,
   their content depending on the schema language, while settings pulls are
   awaiting the configuration, up to MaxEvents events *)

Uri_b == <<"f","i","l","e",":","/","/","/","b">>
PullUris == {Uri_a, Uri_b}

\* <L xmlns="urn:speedata.de:2009/publisher/en"> child </L>
PullDoc(child) ==
  <<Tok("open", N_L, <<Attr(A_xmlns, NS_Publisher)>>), child, Tok("close", N_L, <<>>)>>

PullDocs ==
  { PullDoc(Tok("self", N_L, <<>>)),
    PullDoc(Tok("self", N_S, <<>>)),
    PullDoc(Tok("self", N_DefineColor, <<Attr(A_model, M_constructor)>>)) }

InitPull ==
  /\ documents = <<>>
  /\ typed = [u \in PullUris |-> <<>>]
  /\ globalSettings = SpeedataSettings(<<>>, L_auto)
  /\ clientLanguage = L_en
  /\ schemaCache = <<>>
  /\ catalogCache = <<>>
  /\ files = (P_s :> Absent) @@ (P_t :> File(SchemaT)) @@ (P_c :> File(CatalogEvents))
             @@ (BuiltinSchemaPath(F_layoutschema_en) :> File(SchemaEn))
             @@ (BuiltinSchemaPath(F_layoutschema_de) :> File(SchemaDe))
  /\ published = [u \in PullUris |-> <<>>]
  /\ resolved = [u \in PullUris |-> <<>>]
  /\ compiled = <<>>
  /\ reply = NoReply
  /\ threw = FALSE
  /\ pendingPulls = 0
  /\ initialized = FALSE
  /\ events = 0
  /\ ValidatorIdle
  /\ FormatterIdle
  /\ CompilerIdle
  /\ AnalyzerIdle
  /\ EditorIdle

NextPull ==
  \/ \E u \in PullUris, ts \in PullDocs : DidChangeContent(u, ts)
  \/ \E u \in PullUris : DidClose(u)
  \/ Initialized
  \/ DidChangeConfiguration
  \/ \E config \in Configurations : PullSettings(config)

SpecPull == InitPull /\ [][NextPull]_vars

-----------------------------------------------------------------------------
(* Specification SpecAnalyze: analyzeDocument at every offset of every
   document of up to MaxAnalyzeTokens tokens *)

MaxAnalyzeTokens == 3

N_Foo == <<"F","o","o">>

AnalyzeVocab ==
  { Tok("open", N_Foo, <<>>), Tok("open", N_L, <<Attr(A_n, V_x)>>),
    Tok("close", N_Foo, <<>>), Tok("self", N_L, <<>>),
    Tok("copen", <<>>, <<>>), Tok("cclose", <<>>, <<>>),
    Tok("cdata", <<"c">>, <<>>), Tok("pi", <<"p">>, <<>>) }

InitAnalyze ==
  /\ toks \in TokenLists(AnalyzeVocab, MaxAnalyzeTokens)
  /\ text = RenderAll(toks)
  /\ model = "LS"
  /\ result = NoResult
  /\ pc = "ready"
  /\ caret = 0
  /\ context = <<>>
  /\ linked = <<>>
  /\ FormatterIdle
  /\ CompilerIdle
  /\ ServerIdle
  /\ EditorIdle

\* getCompletions / getHover -> analyzeDocument(doc, position)
AnalyzeDocument ==
  /\ pc = "ready"
  /\ \E offset \in 0..Len(text) :
       /\ caret' = offset
       /\ context' = <<analyzeDocument(text, offset)>>
  /\ pc' = "done"
  /\ UNCHANGED <<toks, text, model, result, linked, fmtVars, rngVars, srvVars, ediVars>>

SpecAnalyze == InitAnalyze /\ [][AnalyzeDocument]_vars

-----------------------------------------------------------------------------
(* Specification SpecAttribute: analyzeDocument at any offset of every document
   of up to MaxAttributeTokens tags that carry an attribute, the last of which
   may still be without its closing bracket *)

MaxAttributeTokens == 3

\* <S n="x : a tag being typed, not yet terminated
Unterminated(name, attrs) ==
  Tok("text", SubSeq(Render(Tok("open", name, attrs)), 1,
                     Len(Render(Tok("open", name, attrs))) - 2), <<>>)

AttributeVocab ==
  { Tok("open", N_L, <<Attr(A_n, V_x)>>), Tok("close", N_L, <<>>),
    Tok("open", N_S, <<Attr(A_n, V_x)>>), Tok("close", N_S, <<>>),
    Tok("self", N_S, <<Attr(A_n, V_x)>>),
    Unterminated(N_S, <<Attr(A_n, V_x)>>) }

InitAttribute ==
  /\ toks \in {ts \in TokenLists(AttributeVocab, MaxAttributeTokens) :
                 \A k \in 1..Len(ts) - 1 : ts[k].k # "text"}
  /\ text = RenderAll(toks)
  /\ model = "LS"
  /\ result = NoResult
  /\ pc = "ready"
  /\ caret = 0
  /\ context = <<>>
  /\ linked = <<>>
  /\ FormatterIdle
  /\ CompilerIdle
  /\ ServerIdle
  /\ EditorIdle

SpecAttribute == InitAttribute /\ [][AnalyzeDocument]_vars

-----------------------------------------------------------------------------
(* Specification SpecLinked: linked editing requests at any offsets of every
   document of up to MaxLinkTokens tags *)

MaxLinkTokens == 4
MaxLinkRequests == 2

V_gt == <<">">>

LinkVocab ==
  { Tok("open", N_L, <<>>), Tok("close", N_L, <<>>), Tok("self", N_L, <<>>),
    Tok("self", N_L, <<Attr(A_n, V_gt)>>),
    Tok("open", N_S, <<Attr(A_n, V_x)>>), Tok("close", N_S, <<>>) }

InitLinked ==
  /\ toks \in TokenLists(LinkVocab, MaxLinkTokens)
  /\ text = RenderAll(toks)
  /\ model = "LS"
  /\ result = NoResult
  /\ pc = "ready"
  /\ AnalyzerIdle
  /\ FormatterIdle
  /\ CompilerIdle
  /\ ServerIdle
  /\ EditorIdle

\* connection.onRequest('textDocument/linkedEditingRange')
LinkedEditingRange ==
  /\ Len(linked) < MaxLinkRequests
  /\ \E offset \in 0..Len(text) :
       linked' = Append(linked, [offset |-> offset,
                                 ranges |-> getLinkedEditingRanges(text, offset)])
  /\ UNCHANGED <<docVars, caret, context, fmtVars, rngVars, srvVars, ediVars>>

SpecLinked == InitLinked /\ [][LinkedEditingRange]_vars

-----------------------------------------------------------------------------
(* Specification SpecNavigate: the editor commands (select element, tree
   navigation) on every document of up to MaxNavTokens tags, the caret placed
   anywhere, the commands in any order, each repeated up to MaxCommands times *)

MaxNavTokens == 5
MaxCommands == 3

NavVocab == { Tok("open", N_L, <<>>), Tok("close", N_L, <<>>), Tok("self", N_S, <<>>) }

\* a trail entry: the command and the selection it left
Ran(op, sel) == [op |-> op, sel |-> sel]

InitNavigate ==
  /\ toks \in TokenLists(NavVocab, MaxNavTokens)
  /\ text = RenderAll(toks)
  /\ model = "LS"
  /\ result = NoResult
  /\ pc = "ready"
  \* the user has put the caret somewhere
  /\ \E offset \in 0..Len(text) :
       /\ selection = jumpTo(offset)
       /\ trail = <<Ran("start", jumpTo(offset))>>
  /\ isInserting = FALSE
  /\ snippet = <<>>
  /\ lastChange = NoChange
  /\ keystrokes = 0
  /\ TreeIdle
  /\ FormatterIdle
  /\ CompilerIdle
  /\ ServerIdle
  /\ AnalyzerIdle

\* a command leaves the selection sel.  The trail holds the current run of one
\* command: the selection the run started from, then the selection after each
\* invocation; another command starts a new run.
Command(op, sel) ==
  LET Run(base) ==
        /\ Len(base) <= MaxCommands
        /\ trail' = Append(base, Ran(op, sel))
  IN /\ Run(IF trail[Len(trail)].op = op THEN trail ELSE <<Ran("start", selection)>>)
     /\ selection' = sel
  /\ UNCHANGED <<docVars, fmtVars, rngVars, srvVars, curVars,
                 isInserting, snippet, lastChange, keystrokes, treVars>>

SelectElement == Command("selectElement", selectElement(text, selection))
GoToParent == Command("goToParent", goToParent(text, selection))
GoToFirstChild == Command("goToFirstChild", goToFirstChild(text, selection))
GoToNextSibling == Command("goToNextSibling", goToNextSibling(text, selection))
GoToPrevSibling == Command("goToPrevSibling", goToPrevSibling(text, selection))

NextNavigate ==
  \/ SelectElement
  \/ GoToParent
  \/ GoToFirstChild
  \/ GoToNextSibling
  \/ GoToPrevSibling

SpecNavigate == InitNavigate /\ [][NextNavigate]_vars

-----------------------------------------------------------------------------
(* Typing in the editor (extension.ts): onDocumentChange, autoCloseOnSlash *)

MaxKeystrokes == 6

\* what the user types, one character per change event
Keys == {"<", "a", ">", "/", "\n"}

\* text with ins put at offset pos
InsertAt(doc, pos, ins) == Substring(doc, 0, pos) \o ins \o SubstringFrom(doc, pos)

\* the document after the editor has made the insertion ins
Applied(doc, ins) ==
  LET Reindent(d, r) ==
        Substring(d, 0, r.start) \o r.by \o SubstringFrom(d, r.start + r.length)
  IN IF ins.reindent = <<>>
     THEN InsertAt(doc, ins.pos, ins.text)
     ELSE Reindent(InsertAt(doc, ins.pos, ins.text), ins.reindent[1])

\* the caret after the editor has made the insertion ins
CaretAfter(ins) ==
  IF ins.reindent = <<>>
  THEN ins.pos + ins.caret
  ELSE ins.pos + ins.caret + Len(ins.reindent[1].by) - ins.reindent[1].length

\* an empty XML document is open in the active editor
InitAutoClose ==
  /\ toks = <<>>
  /\ text = <<>>
  /\ model = "LS"
  /\ result = NoResult
  /\ pc = "ready"
  /\ EditorIdle
  /\ FormatterIdle
  /\ CompilerIdle
  /\ ServerIdle
  /\ AnalyzerIdle

\* isInserting after a promise settled, had .then been given one handler only
Settled_RejectionUnhandled(outcome) == outcome # "fulfilled"

\* .then(() => { isInserting = false; }, () => { isInserting = false; }):
\* isInserting after the promise of the insertion settled with the outcome
Settled(outcome) == FALSE

\* the user types ch at the caret; the change event runs onDocumentChange
Type(ch) ==
  LET start == selection.active
      Changed(doc) ==
        /\ text' = doc
        /\ IF isInserting
           THEN /\ lastChange' = [text |-> <<ch>>, offset |-> start + 1, doc |-> doc,
                                  outcome |-> "ignored", asked |-> <<>>]
                /\ UNCHANGED <<isInserting, snippet>>
           ELSE LET Handled(asked) ==
                      /\ lastChange' = [text |-> <<ch>>, offset |-> start + 1, doc |-> doc,
                                        outcome |-> "handled", asked |-> asked]
                      /\ isInserting' = (asked # <<>>)
                      /\ snippet' = snippet \o asked
                IN Handled(onDocumentChange(doc, start, <<ch>>))
  IN /\ keystrokes < MaxKeystrokes
     /\ keystrokes' = keystrokes + 1
     /\ selection' = jumpTo(start + 1)
     /\ Changed(InsertAt(text, start, <<ch>>))
     /\ UNCHANGED <<toks, model, result, pc, fmtVars, rngVars, srvVars, curVars, trail, treVars>>

\* the editor makes the pending insertion; its own change event reaches
\* onDocumentChange while isInserting is set and is dropped
ApplyInsertion ==
  /\ snippet # <<>>
  /\ ~snippet[1].applied
  /\ text' = Applied(text, snippet[1])
  /\ selection' = jumpTo(CaretAfter(snippet[1]))
  /\ snippet' = <<[snippet[1] EXCEPT !.applied = TRUE]>> \o Tail(snippet)
  /\ UNCHANGED <<toks, model, result, pc, fmtVars, rngVars, srvVars, curVars,
                 trail, isInserting, lastChange, keystrokes, treVars>>

\* the promise of the insertion is fulfilled: isInserting = false
InsertionFulfilled ==
  /\ snippet # <<>>
  /\ snippet[1].applied
  /\ isInserting' = Settled("fulfilled")
  /\ snippet' = Tail(snippet)
  /\ UNCHANGED <<docVars, fmtVars, rngVars, srvVars, curVars,
                 selection, trail, lastChange, keystrokes, treVars>>

\* the promise of the insertion is rejected, nothing was inserted:
\* isInserting = false
InsertionRejected ==
  /\ snippet # <<>>
  /\ ~snippet[1].applied
  /\ isInserting' = Settled("rejected")
  /\ snippet' = Tail(snippet)
  /\ UNCHANGED <<docVars, fmtVars, rngVars, srvVars, curVars,
                 selection, trail, lastChange, keystrokes, treVars>>

NextAutoClose ==
  \/ \E ch \in Keys : Type(ch)
  \/ ApplyInsertion
  \/ InsertionFulfilled
  \/ InsertionRejected

SpecAutoClose == InitAutoClose /\ [][NextAutoClose]_vars

\* editor.edit and editor.insertSnippet return a promise that the editor
\* settles: a pending insertion is fulfilled or rejected in the end
SpecAutoCloseSettled ==
  SpecAutoClose /\ WF_vars(InsertionFulfilled \/ InsertionRejected)

-----------------------------------------------------------------------------
(* Specification SpecComplete: a completion request at any offset of every
   document of up to MaxCompleteTokens tags, the schema being ModelColor *)

MaxCompleteTokens == 3

CompleteVocab ==
  { Tok("self", N_DefineColor, <<Attr(A_name, V_x)>>),
    Tok("self", N_DefineColor, <<Attr(A_name, V_brace)>>),
    Tok("open", N_L, <<Attr(A_color, <<>>)>>),
    Tok("close", N_L, <<>>),
    Tok("self", N_S, <<Attr(A_n, <<>>), Attr(A_color, V_y)>>) }

InitComplete ==
  /\ toks \in TokenLists(CompleteVocab, MaxCompleteTokens)
  /\ text = RenderAll(toks)
  /\ model = "Color"
  /\ result = NoResult
  /\ pc = "ready"
  /\ AnalyzerIdle
  /\ FormatterIdle
  /\ CompilerIdle
  /\ ServerIdle
  /\ EditorIdle

\* connection.onCompletion for the open document, its schema resolved to the
\* model: analyzeDocument, then getCompletions
CompletionRequest ==
  /\ pc = "ready"
  /\ \E offset \in 0..Len(text) :
       LET Answer(ctx) ==
             /\ context' = <<ctx>>
             /\ reply' = [op |-> "completion", uri |-> <<>>,
                          value |-> getCompletions(ctx, ContentModelOf(model))]
       IN /\ caret' = offset
          /\ Answer(analyzeDocument(text, offset))
  /\ pc' = "done"
  /\ UNCHANGED <<toks, text, model, result, linked, fmtVars, rngVars, ediVars>>
  /\ UNCHANGED <<documents, typed, globalSettings, clientLanguage, schemaCache,
                 catalogCache, files, published, resolved, compiled, threw,
                 pendingPulls, initialized, events>>

SpecComplete == InitComplete /\ [][CompletionRequest]_vars

-----------------------------------------------------------------------------
(* Specification SpecTree: buildElementTree, one tag of its for loop at a time,
   on every document of up to MaxTreeTokens tags, then findNodeAtOffset from
   the roots at any offset *)

MaxTreeTokens == 4

TreeVocab ==
  { Tok("open", N_L, <<>>), Tok("close", N_L, <<>>),
    Tok("open", N_S, <<>>), Tok("close", N_S, <<>>), Tok("self", N_S, <<>>) }

\* buildElementTree(text) has collected the tags and starts its for loop
InitTree ==
  /\ toks \in TokenLists(TreeVocab, MaxTreeTokens)
  /\ text = RenderAll(toks)
  /\ model = "LS"
  /\ result = NoResult
  /\ pc = "ready"
  /\ treeTags = CollectTags(text, 0)
  /\ treeState = EmptyTree
  /\ foundNode = <<>>
  /\ CommandsIdle
  /\ FormatterIdle
  /\ CompilerIdle
  /\ ServerIdle
  /\ AnalyzerIdle

\* one round of "for (const tag of tags)"
TreeTag ==
  /\ treeTags # <<>>
  /\ treeState' = TreeStep(treeState, Head(treeTags))
  /\ treeTags' = Tail(treeTags)
  /\ UNCHANGED <<docVars, fmtVars, rngVars, srvVars, curVars, foundNode,
                 selection, trail, isInserting, snippet, lastChange, keystrokes>>

\* buildElementTree has returned the roots; findNodeAtOffset(roots, offset)
FindNodeAtOffset ==
  /\ treeTags = <<>>
  /\ foundNode = <<>>
  /\ \E offset \in 0..Len(text) :
       foundNode' = <<[offset |-> offset,
                       node |-> findNodeAtOffset(treeState.nodes, Roots(treeState.nodes),
                                                 offset)]>>
  /\ UNCHANGED <<docVars, fmtVars, rngVars, srvVars, curVars, treeTags, treeState,
                 selection, trail, isInserting, snippet, lastChange, keystrokes>>

NextTree == TreeTag \/ FindNodeAtOffset

SpecTree == InitTree /\ [][NextTree]_vars

-----------------------------------------------------------------------------
(* Specification SpecValues: validateDocument on documents of up to
   MaxValueTokens tags whose attributes are declared with allowed values, with
   and without a pattern *)

MaxValueTokens == 3

ValueVocab ==
  { Tok("self", N_S, <<Attr(a, v)>>) : a \in {A_n, A_m, A_o}, v \in {<<>>, V_x, V_z, V_1} }
  \cup { Tok("self", N_S, <<Attr(A_o, V_z), Attr(A_n, V_z)>>),
         Tok("self", N_S, <<Attr(A_p, V_z)>>),
         Tok("open", N_S, <<Attr(A_m, V_z), Attr(A_n, V_x)>>) }

InitValues ==
  /\ toks \in TokenLists(ValueVocab, MaxValueTokens)
  /\ text = RenderAll(toks)
  /\ model = "Values"
  /\ result = NoResult
  /\ pc = "ready"
  /\ FormatterIdle
  /\ CompilerIdle
  /\ ServerIdle
  /\ AnalyzerIdle
  /\ EditorIdle

SpecValues == InitValues /\ [][Validate]_vars

-----------------------------------------------------------------------------
(* Specification SpecColor: validateDocument on documents of up to
   MaxColorTokens DefineColor tags with every model value and several sets of
   colour attributes *)

MaxColorTokens == 2

M_other == <<"l","a","b">>

ColorModels == {M_cmyk, M_rgb, M_RGB, M_gray, M_spotcolor, <<>>, M_other, M_constructor}

ColorAttrs ==
  { <<>>, <<Attr(A_value, V_x)>>, <<Attr(<<"g">>, V_x)>>, <<Attr(A_colorname, V_x)>>,
    <<Attr(<<"g">>, V_x), Attr(A_value, V_x)>> }

ColorVocab ==
  { Tok("self", N_DefineColor, <<Attr(A_model, m)>> \o attrs) :
      m \in ColorModels, attrs \in ColorAttrs }
  \cup { Tok("self", N_DefineColor, attrs) : attrs \in ColorAttrs }

InitColor ==
  /\ toks \in TokenLists(ColorVocab, MaxColorTokens)
  /\ text = RenderAll(toks)
  /\ model = "All"
  /\ result = NoResult
  /\ pc = "ready"
  /\ FormatterIdle
  /\ CompilerIdle
  /\ ServerIdle
  /\ AnalyzerIdle
  /\ EditorIdle

SpecColor == InitColor /\ [][Validate]_vars

-----------------------------------------------------------------------------
(* Specification SpecWellFormed: validateDocument on documents of up to
   MaxWfTokens tokens: tags, comments, processing instructions, CDATA sections
   and text, with "<", ">" and "&" inside each of them *)

MaxWfTokens == 3

T_lt == <<"<">>
T_amp == <<"&">>
T_entity == <<"&","a",";">>
T_decimal == <<"&","#","1",";">>
T_hex == <<"&","#","x","1",";">>
T_nodigits == <<"&","#",";">>
T_ltspace == <<"<"," ">>

WfVocab ==
  { Tok("open", N_L, <<>>), Tok("close", N_L, <<>>),
    Tok("self", N_S, <<Attr(A_n, <<"<","&">>)>>),
    Tok("self", N_S, <<Attr(A_n, <<">","&","<">>)>>),
    Tok("comment", <<"<","&">>, <<>>),
    Tok("pi", <<"p","&","<">>, <<>>),
    Tok("cdata", <<"<","&">>, <<>>),
    Tok("text", T_lt, <<>>), Tok("text", T_amp, <<>>), Tok("text", T_entity, <<>>),
    Tok("text", T_decimal, <<>>), Tok("text", T_hex, <<>>), Tok("text", T_nodigits, <<>>),
    Tok("text", T_ltspace, <<>>) }

InitWellFormed ==
  /\ toks \in TokenLists(WfVocab, MaxWfTokens)
  /\ text = RenderAll(toks)
  /\ model = "LS"
  /\ result = NoResult
  /\ pc = "ready"
  /\ FormatterIdle
  /\ CompilerIdle
  /\ ServerIdle
  /\ AnalyzerIdle
  /\ EditorIdle

SpecWellFormed == InitWellFormed /\ [][Validate]_vars

-----------------------------------------------------------------------------
(* What a document is, independently of the program: read off the token list *)

IsElementTok(tok) == tok.k \in {"open", "close", "self"}

\* the comment delimiters pair up and no comment contains a delimiter
RECURSIVE CommentsClosed(_, _)
CommentsClosed(ts, inComment) ==
  IF ts = <<>> THEN ~inComment
  ELSE CASE Head(ts).k = "copen"  -> ~inComment /\ CommentsClosed(Tail(ts), TRUE)
         [] Head(ts).k = "cclose" -> inComment /\ CommentsClosed(Tail(ts), FALSE)
         [] OTHER -> CommentsClosed(Tail(ts), inComment)

\* InComment(ts, k): token k lies between a comment's delimiters
RECURSIVE InComment(_, _)
InComment(ts, k) ==
  IF k <= 1 THEN FALSE
  ELSE CASE ts[k - 1].k = "copen"  -> TRUE
         [] ts[k - 1].k = "cclose" -> FALSE
         [] OTHER -> InComment(ts, k - 1)

\* the indexes of the tags of the document: element tokens outside comments
TagIndexes(ts) == {k \in 1..Len(ts) : IsElementTok(ts[k]) /\ ~InComment(ts, k)}

\* offset of token k in the rendered text
TokOffset(ts, k) == Len(RenderAll(SubSeq(ts, 1, k - 1)))

\* the names of the elements open just after token n, under XML nesting; the
\* flag ok is FALSE once a closing tag did not match the innermost open element
RECURSIVE Nesting(_, _, _)
Nesting(ts, n, skip) ==
  IF n = 0 THEN [ok |-> TRUE, open |-> <<>>, roots |-> 0]
  ELSE LET prev == Nesting(ts, n - 1, skip)
           tok == ts[n]
       IN IF n \notin TagIndexes(ts) \/ n = skip THEN prev
          ELSE CASE tok.k = "open" ->
                      [prev EXCEPT !.open = Append(@, n),
                                   !.roots = IF prev.open = <<>> THEN @ + 1 ELSE @]
                 [] tok.k = "self" ->
                      [prev EXCEPT !.roots = IF prev.open = <<>> THEN @ + 1 ELSE @]
                 [] OTHER ->
                      IF prev.open # <<>> /\ ts[prev.open[Len(prev.open)]].name = tok.name
                      THEN [prev EXCEPT !.open = SubSeq(@, 1, Len(@) - 1)]
                      ELSE [prev EXCEPT !.ok = FALSE]

\* every tag other than token skip is properly opened and closed
ProperlyNested(ts, skip) ==
  LET n == Nesting(ts, Len(ts), skip) IN n.ok /\ n.open = <<>>

\* a well-formed document: comments closed, one root element, tags properly nested
WellFormedDoc(ts) ==
  /\ CommentsClosed(ts, FALSE)
  /\ ProperlyNested(ts, 0)
  /\ Nesting(ts, Len(ts), 0).roots = 1

\* the opening tags that may be called the one without a closing tag
DanglingTags(ts) ==
  {k \in TagIndexes(ts) : ts[k].k = "open" /\ ~ProperlyNested(ts, 0) /\ ProperlyNested(ts, k)}

\* token index of the parent element of tag k (0 for a root)
ParentTag(ts, k) ==
  LET open == Nesting(ts, k - 1, 0).open
  IN IF open = <<>> THEN 0 ELSE open[Len(open)]

\* tag k lies inside a preserved element (between a Value opening tag and its close)
InPreserved(ts, k) ==
  \E j \in 1..Len(Nesting(ts, k - 1, 0).open) :
     ts[Nesting(ts, k - 1, 0).open[j]].name \in PRESERVED_ELEMENTS

HasAttr(tok, name) == \E j \in 1..Len(tok.attrs) : tok.attrs[j].name = name
Declared(m, name) == \E j \in 1..Len(m.elements) : m.elements[j].key = name
DeclOf(m, name) == (CHOOSE e \in {m.elements[j] : j \in 1..Len(m.elements)} : e.key = name).val
HasElementChild(ts, k) ==
  \E j \in TagIndexes(ts) : ts[j].k \in {"open", "self"} /\ ParentTag(ts, j) = k

\* tag k (opening or self-closing) conforms to the content model m and to the
\* element-specific rules of the schema's documentation
ValidTag(ts, k, m) ==
  LET tok == ts[k]
      d == DeclOf(m, tok.name)
      p == ParentTag(ts, k)
      seqElems(q) == {q[j] : j \in 1..Len(q)}
  IN /\ Declared(m, tok.name)
     /\ p # 0 /\ Declared(m, ts[p].name) =>
          tok.name \in seqElems(DeclOf(m, ts[p].name).allowedChildren)
     /\ \A j \in 1..Len(tok.attrs) :
          \E a \in seqElems(d.attributes) :
             /\ a.name = tok.attrs[j].name
             /\ a.values = <<>> \/ tok.attrs[j].value \in {v.value : v \in seqElems(a.values)}
     /\ \A a \in seqElems(d.attributes) : a.required => HasAttr(tok, a.name)
     /\ tok.name = N_Value => ~(HasAttr(tok, A_select) /\ HasElementChild(ts, k))
     /\ tok.name = N_DefineColor =>
          HasAttr(tok, A_value) /\ ~HasAttr(tok, A_model) /\ Len(tok.attrs) = 1

ValidDoc(ts, m) ==
  \A k \in TagIndexes(ts) : ts[k].k \in {"open", "self"} => ValidTag(ts, k, m)

\* the diagnostics of one kind reported at one offset
DiagnosticsAt(diagnostics, kind, pos) ==
  {j \in 1..Len(diagnostics) : diagnostics[j].kind = kind /\ diagnostics[j].pos = pos}
DiagnosticsOf(diagnostics, kind) ==
  {j \in 1..Len(diagnostics) : diagnostics[j].kind = kind}

NoComments(ts) == \A k \in 1..Len(ts) : ts[k].k \notin {"copen", "cclose"}

-----------------------------------------------------------------------------
(* Claims about validateDocument *)

\* C1: in a document of tags in which exactly one opening tag has no matching
\* closing tag and every other element is properly opened and closed,
\* validateDocument reports exactly one "Unclosed element" error, and it is
\* positioned at the name of the dangling opening tag.
C1_OneUnclosedError ==
  (pc = "done" /\ NoComments(toks) /\ DanglingTags(toks) # {}) =>
     /\ Cardinality(DiagnosticsOf(result.diagnostics, "UnclosedElement")) = 1
     /\ \E k \in DanglingTags(toks) :
          DiagnosticsAt(result.diagnostics, "UnclosedElement", TokOffset(toks, k) + 1) # {}

\* C3: a well-formed document that the content model describes (its root and
\* all descendants are declared, with the declared nesting and attributes)
\* gets an empty list of diagnostics.
C3_ValidDocumentNoDiagnostics ==
  (pc = "done" /\ WellFormedDoc(toks) /\ ValidDoc(toks, ContentModelOf(model))) =>
     (~result.threw /\ result.diagnostics = <<>>)

\* C4: every opening or self-closing occurrence of an element name that the
\* content model does not declare yields exactly one "Unknown element"
\* warning, and the occurrence is passed to the custom rule keyed to its name
\* (DefineColor, Value).
C4_UnknownElementWarnedAndRuled ==
  (pc = "done" /\ NoComments(toks) /\ WellFormedDoc(toks)) =>
     \A k \in TagIndexes(toks) :
        (toks[k].k \in {"open", "self"} /\ ~Declared(ContentModelOf(model), toks[k].name)) =>
           /\ Cardinality(DiagnosticsAt(result.diagnostics, "UnknownElement",
                                        TokOffset(toks, k) + 1)) = 1
           /\ toks[k].name \in {N_DefineColor, N_Value} =>
                \E c \in 1..Len(result.customCalls) :
                   result.customCalls[c].pos = TokOffset(toks, k) + 1

\* The tag stream of section 4.2: every tag token in text order (a tag written
\* inside a comment is scanned like any other).
StreamIndexes(ts) == {k \in 1..Len(ts) : IsElementTok(ts[k])}

\* the preserve-depth counter of section 4.4 just before tag n of the stream
RECURSIVE PreserveDepthBefore(_, _)
PreserveDepthBefore(ts, n) ==
  IF n <= 1 THEN 0
  ELSE LET d == PreserveDepthBefore(ts, n - 1)
           tok == ts[n - 1]
       IN IF IsElementTok(tok) /\ tok.name \in PRESERVED_ELEMENTS
          THEN CASE tok.k = "open"  -> d + 1
                 [] tok.k = "close" -> IF d > 0 THEN d - 1 ELSE 0
                 [] OTHER -> d
          ELSE d

\* the "Required attribute missing" errors for attribute name at offset pos
RequiredErrorsAt(diagnostics, pos, len, name) ==
  {j \in 1..Len(diagnostics) :
     /\ diagnostics[j].kind = "RequiredAttributeMissing"
     /\ diagnostics[j].severity = "Error"
     /\ diagnostics[j].pos = pos /\ diagnostics[j].len = len
     /\ diagnostics[j].a = name}

\* C5: for every opening or self-closing tag of a declared element outside a
\* preserved region, validateDocument emits exactly one Error per declared
\* required attribute that is absent from the tag, positioned at the tag's
\* element name, and none for an attribute that is present or not required.
C5_RequiredAttributeErrors ==
  pc = "done" =>
    \A k \in StreamIndexes(toks) :
      (/\ toks[k].k \in {"open", "self"}
       /\ Declared(ContentModelOf(model), toks[k].name)
       /\ PreserveDepthBefore(toks, k) = 0) =>
        LET d == DeclOf(ContentModelOf(model), toks[k].name)
            requiredNames == {d.attributes[j].name : j \in {i \in 1..Len(d.attributes) :
                                                            d.attributes[i].required}}
        IN /\ \A name \in {A_n, A_m, A_o, A_select, A_model, A_value} :
                Cardinality(RequiredErrorsAt(result.diagnostics, TokOffset(toks, k) + 1,
                                             Len(toks[k].name), name))
                  = IF name \in requiredNames /\ ~HasAttr(toks[k], name) THEN 1 ELSE 0
           /\ \A j \in DiagnosticsAt(result.diagnostics, "RequiredAttributeMissing",
                                     TokOffset(toks, k) + 1) :
                /\ result.diagnostics[j].severity = "Error"
                /\ result.diagnostics[j].len = Len(toks[k].name)

\* C5 witness: a section tag outside any preserved region carries n but not m,
\* and the one error reported at its name is the one for m
C5_Witness ==
  /\ pc = "done"
  /\ \E k \in StreamIndexes(toks) :
       /\ toks[k].name = N_S /\ toks[k].k = "open"
       /\ PreserveDepthBefore(toks, k) = 0
       /\ HasAttr(toks[k], A_n) /\ ~HasAttr(toks[k], A_m)
       /\ \E j \in 1..Len(result.diagnostics) :
            /\ result.diagnostics[j].kind = "RequiredAttributeMissing"
            /\ result.diagnostics[j].pos = TokOffset(toks, k) + 1
            /\ result.diagnostics[j].a = A_m

\* C12: a non-self-closing Value element that has a select attribute, contains
\* at least one child element and is closed by its matching </Value> gets the
\* warning "Value must have either child elements or the select attribute, not
\* both" at its opening tag.
C12_ValueSelectAndChildrenWarned ==
  (pc = "done" /\ WellFormedDoc(toks)) =>
     \A k \in TagIndexes(toks) :
        (/\ toks[k].k = "open" /\ toks[k].name = N_Value
         /\ HasAttr(toks[k], A_select)
         /\ HasElementChild(toks, k)
         /\ ~InPreserved(toks, k)) =>
           \E j \in DiagnosticsAt(result.diagnostics, "ValueSelectAndChildren",
                                  TokOffset(toks, k) + 1) :
              result.diagnostics[j].severity = "Warning"

-----------------------------------------------------------------------------
(* Claims about formatXml *)

\* C2: formatting is idempotent: once the edits of one formatting request have
\* been applied to a well-formed document made of tags, comments, processing
\* instructions, Value elements and the whitespace between them, a further
\* formatting request returns no edit.
C2_FormatIdempotent ==
  (WellFormedDoc(toks) /\ pc = "formatted" /\ formats >= 2) => edits = <<>>

\* the string the last formatting request computed: formatDocument returns no
\* edit when it equals the document text
Formatted == IF edits = <<>> THEN text ELSE edits[1]

\* s ends with exactly one newline character
EndsWithOneNewline(s) ==
  /\ Len(s) >= 1 /\ s[Len(s)] = "\n"
  /\ Len(s) >= 2 => s[Len(s) - 1] # "\n"

\* C13: for every input text, the string formatXml returns ends with exactly one
\* newline character.
C13_OneTrailingNewline ==
  pc = "formatted" => EndsWithOneNewline(Formatted)

\* the token that closes the element opened by token k of a well-formed document
MatchingClose(ts, k) ==
  CHOOSE j \in (k + 1)..Len(ts) :
    /\ j \in TagIndexes(ts)
    /\ Len(Nesting(ts, j, 0).open) = Len(Nesting(ts, k - 1, 0).open)
    /\ \A i \in (k + 1)..(j - 1) :
         i \in TagIndexes(ts) =>
           Len(Nesting(ts, i, 0).open) > Len(Nesting(ts, k - 1, 0).open)

\* the preserved elements of the document: the Value opening tags that are not
\* themselves inside a Value
PreservedElements(ts) ==
  {k \in TagIndexes(ts) :
     ts[k].k = "open" /\ ts[k].name \in PRESERVED_ELEMENTS /\ ~InPreserved(ts, k)}

\* the element opened by token k as it is written in the document: its opening
\* tag, everything up to its closing tag, and the closing tag
ElementSource(ts, k) == RenderAll(SubSeq(ts, k, MatchingClose(ts, k)))

\* C14: for every preserved element (Value) that has a matching closing tag, the
\* text between its opening tag and that closing tag appears in the output of
\* formatXml unchanged, character for character.
C14_PreservedContentUnchanged ==
  (pc = "formatted" /\ formats = 1 /\ WellFormedDoc(toks)) =>
     \A k \in PreservedElements(toks) :
        IndexOf(Formatted, ElementSource(toks, k), 0) # -1

\* a self-closing tag starts at offset q of s
SelfClosingTagAt(s, q) ==
  /\ At(s, q) = "<" /\ IsNameStartChar(At(s, q + 1))
  /\ IndexOf(s, <<">">>, q) # -1
  /\ At(s, IndexOf(s, <<">">>, q) - 1) = "/"

\* in s a self-closing tag is followed by a blank line and then, with nothing
\* but white space between them, by another self-closing tag
BlankLineBetweenSelfClosing(s) ==
  \E p \in 0..(Len(s) - 1) :
     /\ StartsWith(s, <<"/", ">", "\n", "\n">>, p)
     /\ SelfClosingTagAt(s, Span("space", s, p + 4))

\* no blank line of the document lies inside a Value element, whose content the
\* formatter copies as it is
NoPreservedText(ts) ==
  ~\E i \in 1..Len(ts) : \E j \in (i + 1)..Len(ts) :
      ts[i].k = "open" /\ ts[i].name \in PRESERVED_ELEMENTS /\ ts[j].k = "text"

\* C15: in the output of formatXml no blank line separates two consecutive
\* self-closing sibling elements, at any depth including that of the children
\* of the document root.
C15_NoBlankBetweenSelfClosing ==
  (pc = "formatted" /\ NoPreservedText(toks)) => ~BlankLineBetweenSelfClosing(Formatted)

\* two self-closing children of the root, written with a blank line between them,
\* come out on consecutive lines
C15_Witness ==
  /\ pc = "formatted" /\ formats = 1
  /\ Len(toks) >= 4
  /\ toks[1].k = "open" /\ toks[1].name = N_A
  /\ toks[2].k = "self" /\ toks[3].k = "text" /\ toks[4].k = "self"
  /\ LET line == indentStr(IndentOf(options), 1)
                 \o normalizeSelfClosingTag(Render(toks[2])) \o <<"\n">>
     IN IndexOf(Formatted, Render(toks[1]) \o <<"\n">> \o line \o line, 0) = 0

-----------------------------------------------------------------------------
(* Claims about parseRng *)

\* the define blocks of the schema that introduce element name e
IntroducedBy(blocks, e) == {k \in 1..Len(blocks) : blocks[k].element = e}

\* C6: when several define blocks of a schema introduce the same element name,
\* the ElementDeclaration parseRng returns for that name is the one of the
\* define block that comes last in the schema source.
C6_LastDefineWins ==
  rngModel # <<>> =>
    \A e \in {N_L, N_S} :
      LET ks == IntroducedBy(rngBlocks, e)
          lastK == CHOOSE k \in ks : \A j \in ks : j <= k
      IN Cardinality(ks) >= 2 =>
           /\ MapHas(rngModel[1].elements, e)
           /\ MapGet(rngModel[1].elements, e).documentation = <<Ordinals[lastK]>>


-----------------------------------------------------------------------------
(* Claims about the language server *)

\* what a document declares, read off its tokens: the href of its xml-model
\* instruction and the xmlns value of its root tag (<<>> when it has none)
DocPiHref(ts) ==
  IF \E h \in {H_s, H_t} : \E k \in 1..Len(ts) : ts[k] = XmlModelPI(h)
  THEN <<CHOOSE h \in {H_s, H_t} : \E k \in 1..Len(ts) : ts[k] = XmlModelPI(h)>>
  ELSE <<>>

DocXmlns(ts) ==
  LET k == CHOOSE j \in 1..Len(ts) : ts[j].k = "open"
  IN IF Len(ts[k].attrs) > 0 /\ ts[k].attrs[1].name = A_xmlns
     THEN <<ts[k].attrs[1].value>> ELSE <<>>

\* the entries of the configured catalog file for namespace ns (documents and
\* catalogs of this model live in the root directory)
CatalogEntriesFor(ns) ==
  {k \in 1..Len(CatalogEntries) :
     /\ globalSettings.catalog # <<>>
     /\ FileAt(files, globalSettings.catalog).state = "file"
     /\ ns # <<>> /\ CatalogEntries[k].name = ns[1]}

PrefersGerman ==
  \/ globalSettings.schemaLanguage = L_de
  \/ globalSettings.schemaLanguage = L_auto /\ clientLanguage = L_de

\* the schema path the precedence rules select for the open document u:
\* <<path>>, or <<>> when no schema applies
ExpectedSchemaPath(u) ==
  LET pi == DocPiHref(typed[u])
      ns == DocXmlns(typed[u])
      entries == CatalogEntriesFor(ns)
  IN IF pi # <<>> THEN <<<<"/">> \o pi[1]>>
     ELSE IF entries # {}
     THEN <<<<"/">> \o CatalogEntries[CHOOSE k \in entries : TRUE].uri>>
     ELSE IF ns = <<NS_Publisher>>
     THEN <<BuiltinSchemaPath(IF PrefersGerman THEN F_layoutschema_de
                              ELSE F_layoutschema_en)>>
     ELSE <<>>

SchemaLoads(calls) == SelectSeq(calls, LAMBDA call : call.fn = "loadSchema")

\* C7: the schema of a document is resolved in strict precedence: the href of
\* its xml-model instruction and nothing else (also when that load yields no
\* model); otherwise the path the configured catalog maps its xmlns value to;
\* otherwise the built-in schema, for the Publisher namespace only.  The
\* result is the result of the one schema load made.
C7_SchemaPrecedence ==
  \A u \in Uris :
    resolved[u] # <<>> =>
      LET r == resolved[u][1]
          loads == SchemaLoads(r.calls)
          expected == ExpectedSchemaPath(u)
      IN /\ Len(loads) = Len(expected)
         /\ expected # <<>> =>
              /\ loads[1].path = expected[1]
              /\ (r.model # <<>>) = loads[1].found
              /\ r.model # <<>> =>
                   /\ MapHas(schemaCache, expected[1])
                   /\ r.model[1] = MapGet(schemaCache, expected[1])
         /\ expected = <<>> => r.model = <<>>
         /\ DocPiHref(typed[u]) # <<>> => Len(r.calls) = 1

\* a document with an xml-model instruction was resolved while a catalog that
\* maps its namespace is configured, and the instruction's schema gave no model
C7_Witness ==
  \E u \in Uris :
    /\ resolved[u] # <<>>
    /\ DocPiHref(typed[u]) # <<>>
    /\ CatalogEntriesFor(DocXmlns(typed[u])) # {}
    /\ resolved[u][1].model = <<>>

\* the schema resolved for open document u cannot be loaded
SchemaUnusable(u) ==
  /\ MapHas(documents, u)
  /\ ExpectedSchemaPath(u) # <<>>
  /\ FileAt(files, ExpectedSchemaPath(u)[1]).state \in {"absent", "unreadable"}
  /\ ~MapHas(schemaCache, ExpectedSchemaPath(u)[1])

\* C8: while the schema resolved for a document is missing or unreadable (and
\* no earlier load of it is cached), no handler throws, the diagnostics last
\* published for the document are the empty list, and a completion or hover
\* request on it is answered with the empty result.
C8_UnusableSchemaDisables ==
  /\ ~threw
  /\ \A u \in Uris :
       SchemaUnusable(u) =>
         /\ published[u] = << <<>> >>
         /\ (reply.op \in {"completion", "hover"} /\ reply.uri = u) => reply.value = "empty"

\* a hover request was answered for a document whose schema file is unreadable
C8_Witness ==
  \E u \in Uris :
    /\ SchemaUnusable(u)
    /\ FileAt(files, ExpectedSchemaPath(u)[1]).state = "unreadable"
    /\ reply.op = "hover" /\ reply.uri = u
    /\ published[u] = << <<>> >>

\* C9: a cached schema is never compiled again and never replaced: an entry of
\* schemaCache stays, with the same ContentModel, until a settings pull changes
\* schemaLanguage; parseRng runs only for a path that is not cached, at most
\* once per handler, and only a successful compilation adds an entry; every
\* resolution returns the cached ContentModel.
C9_CompiledOncePerCacheLifetime ==
  [][LET languageChanged == globalSettings'.schemaLanguage # globalSettings.schemaLanguage
     IN /\ \A k \in 1..Len(schemaCache) :
             ~languageChanged =>
               /\ MapHas(schemaCache', schemaCache[k].key)
               /\ MapGet(schemaCache', schemaCache[k].key) = schemaCache[k].val
        /\ \A k \in 1..Len(compiled') :
             /\ languageChanged \/ ~MapHas(schemaCache, compiled'[k])
             /\ \A j \in 1..Len(compiled') : compiled'[j] = compiled'[k] => j = k
             /\ FileAt(files, compiled'[k]).state = "file"
        /\ \A k \in 1..Len(schemaCache') :
             (languageChanged \/ ~MapHas(schemaCache, schemaCache'[k].key)) =>
               \E j \in 1..Len(compiled') : compiled'[j] = schemaCache'[k].key
        /\ \A u \in Uris :
             (resolved'[u] # <<>> /\ resolved'[u][1].model # <<>>) =>
               LET loads == SchemaLoads(resolved'[u][1].calls)
               IN /\ MapHas(schemaCache', loads[Len(loads)].path)
                  /\ resolved'[u][1].model[1] = MapGet(schemaCache', loads[Len(loads)].path)
    ]_vars

\* a request was answered from the cache after the schema file had changed on disk
C9_Witness ==
  \E u \in Uris :
    /\ reply.op = "completion" /\ reply.uri = u /\ reply.value = "provider"
    /\ MapHas(schemaCache, P_s)
    /\ FileAt(files, P_s) # File(SchemaA)
    /\ MapGet(schemaCache, P_s) = parseRng(SchemaA)
    /\ resolved[u] # <<>> /\ resolved[u][1].model = <<parseRng(SchemaA)>>
    /\ compiled = <<>>


-----------------------------------------------------------------------------
(* Claims about analyzeDocument *)

\* token k is a tag made of "<", an element name and ">", and it is a tag of
\* the document (not text between comment delimiters)
IsBareOpeningTag(ts, k) ==
  ts[k].k = "open" /\ ts[k].attrs = <<>> /\ ~InComment(ts, k)

\* the caret offsets after the "<" of token k and before its ">"
OffsetsInBareTag(ts, k) ==
  (TokOffset(ts, k) + 1)..(TokOffset(ts, k) + 1 + Len(ts[k].name))

\* C10: for a tag that consists of "<", an element name, no attributes and a
\* closing ">", analyzeDocument at every caret offset after the "<" and before
\* the ">" returns a context of type elementHover or elementOpen, never
\* attributeName.
C10_BareTagNeverAttributeName ==
  pc = "done" =>
    \A k \in 1..Len(toks) :
       (IsBareOpeningTag(toks, k) /\ caret \in OffsetsInBareTag(toks, k)) =>
          context[1].type \in {"elementHover", "elementOpen"}

\* the caret sits between the last character of the name and the ">", in a tag
\* that follows a comment
C10_Witness ==
  /\ pc = "done"
  /\ \E k \in 2..Len(toks) :
       /\ IsBareOpeningTag(toks, k)
       /\ toks[k - 1].k = "cclose"
       /\ caret = TokOffset(toks, k) + 1 + Len(toks[k].name)
       /\ context[1].type = "elementHover"
       /\ context[1].currentElement = toks[k].name

\* the document consists of opening, closing and self-closing tags only
OnlyTags(ts) == \A k \in 1..Len(ts) : ts[k].k \in {"open", "close", "self"}

\* the names of the frames buildElementTree's stack discipline leaves open after
\* the tags that start before the offset
OpenFrameNames(t, offset) ==
  LET Names(tree) == [i \in 1..Len(tree.stack) |-> tree.nodes[tree.stack[i]].name]
  IN Names(TreeOfTags([nodes |-> <<>>, stack |-> <<>>],
                      SelectSeq(CollectTags(t, 0), LAMBDA tag : tag.index < offset)))

\* C11: for every sequence of opening, closing and self-closing tags, the
\* ancestor stack buildElementStack computes for analyzeDocument (from the tags
\* that start before the caret) equals the names of the frames left open by the
\* tree builder's discipline, where a closing tag removes only the nearest frame
\* of its name.
C11_StackMatchesTreeBuilder ==
  (pc = "done" /\ OnlyTags(toks)) =>
     buildElementStack(text, caret) = OpenFrameNames(text, caret)

-----------------------------------------------------------------------------
(* Claims about the editor commands *)

\* the offsets at which the elements of the document start, in document order
\* (pre-order): the opening and self-closing tags
ElementStarts(ts) ==
  LET idx == SelectSeq([k \in 1..Len(ts) |-> k],
                       LAMBDA k : k \in TagIndexes(ts) /\ ts[k].k \in {"open", "self"})
  IN [n \in 1..Len(idx) |-> TokOffset(ts, idx[n])]

\* the trail is a run of the command op
RunOf(op) == Len(trail) >= 2 /\ trail[2].op = op

\* C16: starting with the caret at the start of the root element of a
\* well-formed document, repeated goToFirstChild moves the caret to the start of
\* each element in document order, one element per invocation, and leaves it
\* at the last element once there is nowhere to go.
C16_FirstChildWalksPreOrder ==
  (/\ WellFormedDoc(toks)
   /\ RunOf("goToFirstChild")
   /\ trail[1].sel = jumpTo(ElementStarts(toks)[1])) =>
     \A n \in 1..Len(trail) :
        trail[n].sel = jumpTo(ElementStarts(toks)[Min(n, Len(ElementStarts(toks)))])

\* the opening and self-closing tags of the document, as token indexes
ElementTags(ts) == {k \in TagIndexes(ts) : ts[k].k \in {"open", "self"}}

\* the range of the element that token k of a well-formed document opens: from
\* the "<" of its opening tag to just behind the ">" of its closing tag
RangeOfElement(ts, k) ==
  Selection(TokOffset(ts, k),
            TokOffset(ts, (IF ts[k].k = "self" THEN k ELSE MatchingClose(ts, k)) + 1))

\* C17: when selectElement is invoked while the selection is exactly the range
\* of an element E that a previous selectElement produced, and E has a parent
\* element, the new selection is exactly the range of E's parent.
C17_SelectExpandsToParent ==
  (WellFormedDoc(toks) /\ RunOf("selectElement")) =>
     \A n \in 3..Len(trail) : \A k \in ElementTags(toks) :
        (trail[n - 1].sel = RangeOfElement(toks, k) /\ ParentTag(toks, k) # 0) =>
           trail[n].sel = RangeOfElement(toks, ParentTag(toks, k))

-----------------------------------------------------------------------------
(* Claims about linked editing *)

\* the caret offsets on the name of token k: from just behind "<" (or "</") to
\* just behind the name
NameSpan(ts, k) ==
  LET start == TokOffset(ts, k) + (IF ts[k].k = "close" THEN 2 ELSE 1)
  IN OffsetRange(start, start + Len(ts[k].name))

OnNameOf(ts, k, offset) == NameSpan(ts, k).start <= offset /\ offset <= NameSpan(ts, k).end

\* the reply r pairs the caret's opening tag with a closing tag
PairsFromOpening(r) ==
  /\ r.ranges # <<>>
  /\ r.ranges[1][1].start <= r.offset /\ r.offset <= r.ranges[1][1].end

\* C18: linked editing pairs are symmetric: if a request with the caret on the
\* name of an opening tag returns the name span of closing tag C as partner, a
\* request with the caret on C's name returns the same two spans; the two spans
\* of a reply carry the same name; and a request with the caret on the name of a
\* self-closing tag returns no pair.
C18_LinkedPairsSymmetric ==
  /\ \A i \in 1..Len(linked) : \A j \in 1..Len(linked) :
        (/\ PairsFromOpening(linked[i])
         /\ linked[i].ranges[1][2].start <= linked[j].offset
         /\ linked[j].offset <= linked[i].ranges[1][2].end) =>
           linked[j].ranges = linked[i].ranges
  /\ \A i \in 1..Len(linked) :
        linked[i].ranges # <<>> =>
           Substring(text, linked[i].ranges[1][1].start, linked[i].ranges[1][1].end)
             = Substring(text, linked[i].ranges[1][2].start, linked[i].ranges[1][2].end)
  /\ \A i \in 1..Len(linked) : \A k \in 1..Len(toks) :
        (toks[k].k = "self" /\ OnNameOf(toks, k, linked[i].offset)) =>
           linked[i].ranges = <<>>

-----------------------------------------------------------------------------
(* Claims about typing in the editor *)

\* the name of the bare or attributed opening tag <Name ...> that the ">" in
\* front of offset completes on its line, as <<Name>>; <<>> when the ">" ends
\* a closing or self-closing tag, a comment, a processing instruction, or no tag
OpeningTagCompletedAt(doc, offset) ==
  LET Body(p, e) ==
        /\ e <= offset - 1
        /\ e < offset - 1 => isWhitespace(doc[e + 1])
        /\ \A k \in e..(offset - 2) : doc[k + 1] \notin {"<", ">", "\n"}
        /\ doc[offset - 1] \notin {"/", "?", "-"}
      Opens(p) ==
        /\ doc[p + 1] = "<"
        /\ IsNameStartChar(At(doc, p + 1))
        /\ Body(p, Span("name", doc, p + 1))
      Name(p) == Substring(doc, p + 1, Span("name", doc, p + 1))
  IN IF offset >= 3 /\ doc[offset] = ">" /\ \E p \in 0..(offset - 3) : Opens(p)
     THEN <<Name(CHOOSE p \in 0..(offset - 3) : Opens(p))>>
     ELSE <<>>

ClosingTag(name) == <<"<", "/">> \o name \o <<">">>

\* the last change was a typed ">" that completed an opening tag not already
\* followed by its closing tag
TypedOpeningTag ==
  LET Fresh(name) ==
        /\ name # <<>>
        /\ Substring(lastChange.doc, lastChange.offset,
                     lastChange.offset + Len(name[1]) + 3) # ClosingTag(name[1])
  IN /\ lastChange.outcome # "none"
     /\ lastChange.text = <<">">>
     /\ Fresh(OpeningTagCompletedAt(lastChange.doc, lastChange.offset))

\* the insertion onDocumentChange asked for puts </Name> right behind the ">"
AskedClosingTag ==
  /\ lastChange.asked # <<>>
  /\ lastChange.asked[1].pos = lastChange.offset
  /\ lastChange.asked[1].text =
       ClosingTag(OpeningTagCompletedAt(lastChange.doc, lastChange.offset)[1])

\* C19: whenever a typed ">" completes an opening tag <Name> that is not already
\* followed by </Name>, the extension inserts </Name> right behind the ">",
\* whatever earlier automatic insertions are still pending
C19_OpeningTagGetsClosed == TypedOpeningTag => AskedClosingTag

-----------------------------------------------------------------------------
(* Claims about completion *)

\* the mappings whose target is attribute attributeName of element currentElement
MatchingMappings(currentElement, attributeName) ==
  {i \in 1..Len(mappings) :
     /\ mappings[i].targetElement \in {<<"*">>, currentElement}
     /\ mappings[i].targetAttribute = attributeName}

\* the values the tags of the document give the source attribute of mapping i
IntroducedNames(ts, i) ==
  {ts[k].attrs[j].value :
     <<k, j>> \in {p \in TagIndexes(ts) \X (1..3) :
                     /\ ts[p[1]].k \in {"open", "self"}
                     /\ ts[p[1]].name = mappings[i].sourceElement
                     /\ p[2] <= Len(ts[p[1]].attrs)
                     /\ ts[p[1]].attrs[p[2]].name = mappings[i].sourceAttribute}}

\* the labels of the completion items last returned
ReplyLabels == {reply.value[i].label : i \in 1..Len(reply.value)}

\* C20: in an attributeValue context for an attribute some cross-reference
\* mapping targets, the completions contain every name the mapping's source
\* element introduces in the document, except names containing "{"
C20_CrossReferencedNamesOffered ==
  (/\ pc = "done"
   /\ reply.op = "completion"
   /\ context[1].type = "attributeValue")
  => \A i \in MatchingMappings(context[1].currentElement, context[1].attributeName[1]) :
       \A name \in IntroducedNames(toks, i) :
         (\A c \in 1..Len(name) : name[c] # "{") => name \in ReplyLabels

-----------------------------------------------------------------------------
(* Claims about buildElementTree and findNodeAtOffset *)

\* the stack holds, bottom to top and each once, exactly the nodes whose closeEnd
\* is unresolved, none of them made from a self-closing tag
StackIsUnresolved(t) ==
  /\ \A i \in 1..Len(t.nodes) :
       (t.nodes[i].closeEnd = -1) <=> (\E k \in 1..Len(t.stack) : t.stack[k] = i)
  /\ \A k \in 1..(Len(t.stack) - 1) : t.stack[k] < t.stack[k + 1]

\* the frame a closing tag named name pairs with: the topmost of that name, 0 if none
NearestFrame(t, name) ==
  IF \E k \in 1..Len(t.stack) : t.nodes[t.stack[k]].name = name
  THEN CHOOSE k \in 1..Len(t.stack) :
         /\ t.nodes[t.stack[k]].name = name
         /\ \A j \in (k + 1)..Len(t.stack) : t.nodes[t.stack[j]].name # name
  ELSE 0

\* what a closing tag does to tree before, giving after
ClosesNearestOnly(before, after, tag) ==
  LET Paired(k) ==
        IF k = 0 THEN after = before
        ELSE /\ Len(after.nodes) = Len(before.nodes)
             /\ after.nodes[before.stack[k]].closeEnd = tag.end
             /\ \A i \in 1..Len(before.nodes) :
                  i # before.stack[k] => after.nodes[i] = before.nodes[i]
             /\ after.stack = [j \in 1..(Len(before.stack) - 1) |->
                                 IF j < k THEN before.stack[j] ELSE before.stack[j + 1]]
  IN Paired(NearestFrame(before, tag.name))

\* C21: after every processed tag the open stack of buildElementTree holds
\* exactly the non-self-closing nodes whose closeEnd is unresolved; a closing
\* tag sets closeEnd on the nearest same-named frame and removes only that
\* frame; no closeEnd, once set, is set again
C21_StackHoldsUnresolvedNodes ==
  [][treeState' # treeState =>
       /\ StackIsUnresolved(treeState')
       /\ (Head(treeTags).isClose /\ ~Head(treeTags).isSelfClose)
            => ClosesNearestOnly(treeState, treeState', Head(treeTags))
       /\ \A i \in 1..Len(treeState.nodes) :
            treeState.nodes[i].closeEnd # -1
              => treeState'.nodes[i].closeEnd = treeState.nodes[i].closeEnd]_vars

\* a closing tag has closed a frame below the top: its node is closed while a
\* child of it is still on the stack
C21_Witness ==
  \E k \in 1..Len(treeState.stack) :
    LET p == treeState.nodes[treeState.stack[k]].parent
    IN p # 0 /\ treeState.nodes[p].closeEnd # -1

\* offset lies within [start, closeEnd] of node i
InRange(nodes, i, offset) == nodes[i].start <= offset /\ offset <= nodes[i].closeEnd

\* node d is a proper descendant of node a (a node's parent precedes it)
RECURSIVE IsDescendant(_, _, _)
IsDescendant(nodes, d, a) ==
  IF nodes[d].parent = 0 THEN FALSE
  ELSE nodes[d].parent = a \/ IsDescendant(nodes, nodes[d].parent, a)

\* C22: for a tree of buildElementTree and an offset within [start, closeEnd] of
\* at least one node, findNodeAtOffset returns a node whose range contains the
\* offset and none of whose descendants' ranges contains it
C22_InnermostNodeFound ==
  LET nodes == treeState.nodes
      Innermost(n, offset) ==
        /\ n # 0
        /\ InRange(nodes, n, offset)
        /\ \A d \in 1..Len(nodes) :
             IsDescendant(nodes, d, n) => ~InRange(nodes, d, offset)
  IN (/\ foundNode # <<>>
      /\ \E i \in 1..Len(nodes) : InRange(nodes, i, foundNode[1].offset))
     => Innermost(foundNode[1].node, foundNode[1].offset)

-----------------------------------------------------------------------------
(* Claims about the tag walk of validateDocument *)

\* the state of the tag walk after its first k tags
WalkAfter(tags, k, m) == ValidateTags(ValidateInit, SubSeq(tags, 1, k), 1, m)

\* the walk is inside a preserved element in state a and processes tag, giving b
PreservedStep(a, tag, b) ==
  LET IsValueClose == tag.name = <<"/">> \o N_Value
      IsValueOpen == tag.name = N_Value /\ ~tag.selfClosing
      Counted == IF IsValueClose THEN a.preserveDepth - 1
                 ELSE IF IsValueOpen THEN a.preserveDepth + 1
                 ELSE a.preserveDepth
  IN /\ Len(a.stack) > 0
     /\ a.stack[Len(a.stack)].name = N_Value
     /\ b.preserveDepth = Counted
     /\ b.diagnostics = a.diagnostics
     /\ Counted > 0 => b.stack = a.stack

\* C23: in the tag walk of validateDocument, from the opening of a
\* non-self-closing Value until the </Value> that balances it (nested
\* non-self-closing Value opens increment preserveDepth, </Value> decrements
\* it), no inner tag yields a diagnostic and none pushes, pops or marks the
\* element stack; while preserveDepth > 0 the top of the stack is that Value
C23_PreservedTagsNotInterpreted ==
  LET Walk(tags, m) ==
        \A k \in 1..Len(tags) :
          LET Step(a, b) ==
                /\ a.preserveDepth > 0 => PreservedStep(a, tags[k], b)
                /\ (a.preserveDepth = 0 /\ tags[k].name = N_Value /\ ~tags[k].selfClosing)
                     => /\ b.preserveDepth = 1
                        /\ b.stack[Len(b.stack)].tag = tags[k]
                /\ (a.preserveDepth = 0 /\ ~(tags[k].name = N_Value /\ ~tags[k].selfClosing))
                     => b.preserveDepth = 0
              From(a) == Step(a, ValidateTag(a, tags[k], m))
          IN From(WalkAfter(tags, k - 1, m))
  IN pc = "done" => Walk(parseTags(text), ContentModelOf(model))

\* the walk has met an undeclared element inside a Value nested in a Value
C23_Witness ==
  LET Met(tags, m) ==
        \E k \in 1..Len(tags) :
          tags[k].name = N_U /\ WalkAfter(tags, k - 1, m).preserveDepth = 2
  IN pc = "done" /\ Met(parseTags(text), ContentModelOf(model))

-----------------------------------------------------------------------------
(* Claims about attribute values *)

\* the offset of the name of attribute j of tag token k
AttrOffset(ts, k, j) ==
  TokOffset(ts, k) + 1 + Len(ts[k].name) + Len(RenderAttrs(SubSeq(ts[k].attrs, 1, j - 1))) + 1

\* the 'Invalid value' warnings at the name of attribute j of tag token k
InvalidValueWarningsAt(diagnostics, ts, k, j) ==
  {d \in 1..Len(diagnostics) :
     /\ diagnostics[d].kind \in {"InvalidValue", "InvalidValueAllowed"}
     /\ diagnostics[d].severity = "Warning"
     /\ diagnostics[d].pos = AttrOffset(ts, k, j)
     /\ diagnostics[d].len = Len(ts[k].attrs[j].name)}

\* the declaration calls for a warning on value
ValueIsInvalid(attrDecl, value) ==
  /\ attrDecl.values # <<>>
  /\ value # <<>>
  /\ \A i \in 1..Len(attrDecl.values) : attrDecl.values[i].value # value
  /\ \/ attrDecl.pattern = <<>>
     \/ PatternCompiles(attrDecl.pattern) /\ ~PatternTest(attrDecl.pattern, value)

\* C24: validateDocument emits an 'Invalid value' warning for a present,
\* declared attribute exactly when the declaration has a non-empty list of
\* allowed values, the value is non-empty and not in the list, and either no
\* pattern is declared or the pattern compiles and does not match the whole
\* value; a pattern that does not compile yields no diagnostic and does not
\* stop the validation of the attributes and tags that follow
C24_InvalidValueWarnings ==
  LET m == ContentModelOf(model)
      Declared24(tok, j) ==
        /\ MapHas(m.elements, tok.name)
        /\ FindAttrDecl(MapGet(m.elements, tok.name), tok.attrs[j].name) # 0
      DeclOf24(tok, j) ==
        MapGet(m.elements, tok.name).attributes[
          FindAttrDecl(MapGet(m.elements, tok.name), tok.attrs[j].name)]
  IN pc = "done" =>
       /\ ~result.threw
       /\ \A k \in 1..Len(toks) : \A j \in 1..Len(toks[k].attrs) :
            Declared24(toks[k], j) =>
              Cardinality(InvalidValueWarningsAt(result.diagnostics, toks, k, j))
                = IF ValueIsInvalid(DeclOf24(toks[k], j), toks[k].attrs[j].value)
                  THEN 1 ELSE 0

\* a tag whose first attribute has a pattern that does not compile and whose
\* second attribute was warned about
C24_Witness ==
  /\ pc = "done"
  /\ \E k \in 1..Len(toks) :
       /\ Len(toks[k].attrs) = 2
       /\ toks[k].attrs[1].name = A_o
       /\ toks[k].attrs[1].value = V_z
       /\ InvalidValueWarningsAt(result.diagnostics, toks, k, 2) # {}

-----------------------------------------------------------------------------
(* Claims about the custom constraints *)

\* the value of attribute name of the tag token, <<>> if it has none
AttrValueOf(tok, name) ==
  IF HasAttr(tok, name)
  THEN tok.attrs[CHOOSE j \in 1..Len(tok.attrs) : tok.attrs[j].name = name].value
  ELSE <<>>

\* the custom diagnostics of the given kind and severity about attribute attr,
\* reported at tag token k
CustomDiagnosticsAt(diagnostics, ts, k, kind, severity, attr) ==
  {d \in 1..Len(diagnostics) :
     /\ diagnostics[d].kind = kind
     /\ diagnostics[d].severity = severity
     /\ diagnostics[d].pos = TokOffset(ts, k) + 1
     /\ diagnostics[d].a = attr}

\* C25: for a DefineColor element with model value m (a missing model counting
\* as empty): if m is cmyk, rgb, RGB, gray, spotcolor or empty, there is one
\* error per absent attribute of the model's required set, one warning per
\* present attribute of its forbidden set, and nothing else; for any other m
\* validateCustomConstraints yields no custom diagnostic
C25_DefineColorRules ==
  LET names == {<<"r">>, <<"g">>, <<"b">>, <<"c">>, <<"m">>, <<"y">>, <<"k">>,
                A_value, A_colorname}
      InList(list, x) == \E i \in 1..Len(list) : list[i] = x
      Expect(k, rule) ==
        /\ \A a \in names :
             /\ Cardinality(CustomDiagnosticsAt(result.diagnostics, toks, k,
                                                "RequiredForModel", "Error", a))
                  = IF InList(rule.required, a) /\ ~HasAttr(toks[k], a) THEN 1 ELSE 0
             /\ Cardinality(CustomDiagnosticsAt(result.diagnostics, toks, k,
                                                "NotAllowedForModel", "Warning", a))
                  = IF InList(rule.forbidden, a) /\ HasAttr(toks[k], a) THEN 1 ELSE 0
        /\ \A d \in 1..Len(result.diagnostics) :
             (/\ result.diagnostics[d].pos = TokOffset(toks, k) + 1
              /\ result.diagnostics[d].kind \in {"RequiredForModel", "NotAllowedForModel",
                                                 "ValueSelectAndChildren"})
             => result.diagnostics[d].a \in names
      Ruled(k, m) ==
        Expect(k, IF m \in {M_cmyk, M_rgb, M_RGB, M_gray, M_spotcolor, <<>>}
                  THEN defineColorRules[m]
                  ELSE [required |-> <<>>, forbidden |-> <<>>])
  IN pc = "done" =>
       /\ ~result.threw
       /\ \A k \in 1..Len(toks) :
            toks[k].name = N_DefineColor => Ruled(k, AttrValueOf(toks[k], A_model))

-----------------------------------------------------------------------------
(* Claims about checkWellFormedness *)

\* the defect, if any, of the character at offset c of a text token: every text
\* token of WfVocab is one piece of text content, in which "<" starts nothing
\* and "&" starts a reference only in &a; &#1; and &#x1;
DefectIn(tok, c) ==
  IF tok.k # "text" THEN "none"
  ELSE IF tok.name[c + 1] = "<" THEN "InvalidLt"
  ELSE IF tok.name[c + 1] = "&" /\ tok.name \notin {T_entity, T_decimal, T_hex}
  THEN "InvalidAmp"
  ELSE "none"

\* the well-formedness errors reported at offset p
WellFormednessErrorsAt(diagnostics, p) ==
  {d \in 1..Len(diagnostics) :
     /\ diagnostics[d].kind \in {"InvalidLt", "InvalidAmp"}
     /\ diagnostics[d].pos = p}

\* C26: checkWellFormedness reports exactly one error for each "<" of text
\* content that starts no tag, comment, processing instruction or CDATA
\* section and for each "&" of text content that starts no reference, reports
\* nothing for the characters of tags, quoted attribute values, comments,
\* processing instructions and CDATA sections, and goes on to the end of the
\* text after a defect
C26_WellFormednessErrors ==
  pc = "done" =>
    /\ ~result.threw
    /\ \A k \in 1..Len(toks) : \A c \in 0..(Len(Render(toks[k])) - 1) :
         LET Reported(errors) ==
               IF DefectIn(toks[k], c) = "none" THEN errors = {}
               ELSE /\ Cardinality(errors) = 1
                    /\ \A d \in errors :
                         /\ result.diagnostics[d].kind = DefectIn(toks[k], c)
                         /\ result.diagnostics[d].severity = "Error"
                         /\ result.diagnostics[d].len = 1
         IN Reported(WellFormednessErrorsAt(result.diagnostics, TokOffset(toks, k) + c))

\* a bare "<", then a tag with ">" and "&" in a quoted value, then a bare "&":
\* both defects were reported
C26_Witness ==
  /\ pc = "done"
  /\ Len(toks) = 3
  /\ toks[1] = Tok("text", T_lt, <<>>)
  /\ toks[2] = Tok("self", N_S, <<Attr(A_n, <<">","&","<">>)>>)
  /\ toks[3] = Tok("text", T_amp, <<>>)
  /\ WellFormednessErrorsAt(result.diagnostics, 0) # {}
  /\ WellFormednessErrorsAt(result.diagnostics, Len(text) - 1) # {}

-----------------------------------------------------------------------------
(* Claims about optionalDepth and AttributeDeclaration.required in parseRng *)

\* opening minus closing tags among constructs i..j
NestBalance(cs, i, j) ==
  Cardinality({x \in i..j : cs[x].kind = "open"})
  - Cardinality({x \in i..j : cs[x].kind = "close"})

\* the optional or zeroOrMore construct opened at i is still open at construct k
OpenAcross(cs, i, k) ==
  /\ i < k
  /\ cs[i].kind = "open" /\ cs[i].tag \in {T_optional, T_zeroOrMore}
  /\ \A j \in i..k : NestBalance(cs, i, j) > 0

InsideOptional(cs, k) == \E i \in 1..Len(cs) : OpenAcross(cs, i, k)

AttributeConstructs(cs) == SelectSeq([x \in 1..Len(cs) |-> x], LAMBDA x : cs[x].kind = "attribute")

\* the declarations compiled so far for the define block of the schema
CompiledAttributes ==
  IF rngModel # <<>> THEN MapGet(rngModel[1].elements, N_L).attributes
  ELSE IF rngState.currentDefine # <<>> THEN rngState.currentDefine[1].attributes
  ELSE IF MapHas(rngState.defines, D_X) THEN MapGet(rngState.defines, D_X).attributes
  ELSE <<>>

DeclaredAs(declaration, cs, k) ==
  /\ declaration.name = cs[k].name
  /\ declaration.required = ~InsideOptional(cs, k)

OptionalFramesOpen ==
  Cardinality({k \in 1..Len(rngState.stack) :
                 rngState.stack[k].tag \in {T_optional, T_zeroOrMore}})

\* C27: every attribute construct of a well-nested schema is compiled with
\* required true exactly when no optional or zeroOrMore construct is open
\* where it opens (oneOrMore makes no difference), and optionalDepth is at
\* every point the number of optional and zeroOrMore frames on the stack
C27_RequiredOutsideOptional ==
  LET at == AttributeConstructs(rngBlocks)
      declared == CompiledAttributes
  IN /\ rngState.optionalDepth = OptionalFramesOpen
     /\ Len(declared) <= Len(at)
     /\ \A i \in 1..Len(declared) : DeclaredAs(declared[i], rngBlocks, at[i])
     /\ rngState.currentAttribute # <<>> =>
          /\ Len(declared) < Len(at)
          /\ DeclaredAs(rngState.currentAttribute[1], rngBlocks, at[Len(declared) + 1])
     /\ rngModel # <<>> => Len(declared) = Len(at)

\* <optional><attribute n/></optional><oneOrMore><attribute m/></oneOrMore>
\* has been declared: n is not required, m is
C27_Witness ==
  /\ rngModel # <<>>
  /\ rngBlocks = << OpenConstruct(T_optional), AttributeConstruct(A_n), CloseConstruct(T_optional),
                    OpenConstruct(T_oneOrMore), AttributeConstruct(A_m), CloseConstruct(T_oneOrMore) >>
  /\ Len(CompiledAttributes) = 2
  /\ ~CompiledAttributes[1].required
  /\ CompiledAttributes[2].required

-----------------------------------------------------------------------------
(* Claims about the element stack of attribute contexts *)

AttributeContextTypes == {"attributeName", "attributeValue", "attributeHover"}

\* the tags the offset lies in: after the opening bracket and before the end
\* of the tag (at the end of the document for a tag not yet terminated)
TagsUnderCaret(ts, offset) ==
  {k \in 1..Len(ts) :
     /\ ts[k].k \in {"open", "self", "text"}
     /\ TokOffset(ts, k) < offset
     /\ \/ offset < TokOffset(ts, k + 1)
        \/ ts[k].k = "text" /\ offset = TokOffset(ts, k + 1)}

TagNameOf(tok) == IF tok.k = "text" THEN N_S ELSE tok.name

\* the elements open after tags i..k-1, given those open before tag i; ok is
\* FALSE when a closing tag does not close the innermost open element
RECURSIVE OpenElementsFrom(_, _, _, _)
OpenElementsFrom(ts, i, k, open) ==
  IF i >= k THEN [ok |-> TRUE, names |-> open]
  ELSE CASE ts[i].k = "open" -> OpenElementsFrom(ts, i + 1, k, Append(open, ts[i].name))
         [] ts[i].k = "close" ->
              IF open # <<>> /\ open[Len(open)] = ts[i].name
              THEN OpenElementsFrom(ts, i + 1, k, SubSeq(open, 1, Len(open) - 1))
              ELSE [ok |-> FALSE, names |-> <<>>]
         [] OTHER -> OpenElementsFrom(ts, i + 1, k, open)

StackIsAncestorsAndTag(ctx, ts, k) ==
  LET Against(ancestors) ==
        ancestors.ok =>
          /\ ctx.elementStack = Append(ancestors.names, TagNameOf(ts[k]))
          /\ ctx.currentElement = TagNameOf(ts[k])
  IN Against(OpenElementsFrom(ts, 1, k, <<>>))

\* C28: in every attributeName, attributeValue and attributeHover context the
\* elementStack is the names of the open ancestors of the tag under the
\* caret, from the root inward, followed by that tag's own name, which is
\* currentElement, also for a self-closing or not yet terminated tag
C28_StackIsAncestorsThenTag ==
  (context # <<>> /\ context[1].type \in AttributeContextTypes) =>
    /\ TagsUnderCaret(toks, caret) # {}
    /\ \A k \in TagsUnderCaret(toks, caret) : StackIsAncestorsAndTag(context[1], toks, k)

-----------------------------------------------------------------------------
(* Claims about isInserting *)

\* C29: an automatic insertion is issued with isInserting set, isInserting
\* is reset in the end whether the edit resolves or rejects, and while it is
\* set a change event issues no edit, so that at most one automatic
\* insertion is pending at any time
C29_OneInsertionPending ==
  /\ [](Len(snippet) <= 1 /\ (snippet # <<>> => isInserting))
  /\ [][(isInserting /\ keystrokes' # keystrokes) => snippet' = snippet]_vars
  /\ (isInserting ~> ~isInserting)

\* the user typed ">" after an opening tag while the insertion asked for by
\* an earlier opening tag was still pending: the change was ignored
C29_Witness ==
  /\ isInserting
  /\ snippet # <<>>
  /\ lastChange.outcome = "ignored"
  /\ lastChange.text = <<">">>
  /\ TagMatch(Substring(lastChange.doc, LineStart(lastChange.doc, lastChange.offset),
                        lastChange.offset)) # -1

-----------------------------------------------------------------------------
(* Claims about pullSettings *)

\* what validating the document with the settings sends: <<diagnostics>>, or
\* <<>> when nothing can be sent because validateDocument throws
DiagnosticsUnder(c, fs, settings, language, uri, doc) ==
  LET Sent(v) == IF v.threw THEN <<>> ELSE <<v.diagnostics>>
      Resolved(r) ==
        IF r.model = <<>> THEN << <<>> >> ELSE Sent(validateDocument(doc, r.model[1]))
  IN Resolved(resolveSchemaForDocument(c, fs, settings, language, uri, doc))

\* C30: when a settings pull completes, diagnostics are published again for
\* every document open at that moment, computed with the settings just
\* stored, whatever was handled while the pull was awaiting the configuration
C30_PullRevalidatesOpenDocuments ==
  [][pendingPulls' < pendingPulls =>
       \A u \in DOMAIN published :
         MapHas(documents', u) =>
           published'[u] =
             DiagnosticsUnder([schemaCache |-> schemaCache', catalogCache |-> catalogCache',
                               calls |-> <<>>, compiled |-> <<>>, published |-> published',
                               resolved |-> resolved', threw |-> FALSE],
                              files', globalSettings', clientLanguage', u,
                              MapGet(documents', u))]_vars

=============================================================================
